---- MODULE Spec2Model ----
(***************************************************************************)
(* A model of the feed proxy: the URL safety validator (lib/ssrf.ts), the  *)
(* HTML sanitizer (lib/sanitize.ts) and the /discover, /fetch and /parse   *)
(* handlers.  Strings are sequences of one-character strings, so that the  *)
(* prefix, suffix and pattern tests of the code are computed character by  *)
(* character.  "TAB" stands for U+0009 and "SOH" for U+0001.               *)
(***************************************************************************)
EXTENDS Integers, Sequences, FiniteSets, TLC

VARIABLES
  urlInput,     \* validator run: how the input string was built
  urlString,    \* validator run: the argument of validateUrl
  validation,   \* validator run: the UrlValidationResult, NotCalled before the call
  htmlInput,    \* sanitizer run: how the fragment was built
  htmlDom,      \* sanitizer run: the parsed fragment passed to sanitizeHtml
  htmlBase,     \* sanitizer run: the baseUrl argument
  sanitized,    \* sanitizer run: [done, dom], the document after sanitizeHtml
  resanitized,  \* [done, dom], the document after sanitizeHtml of the returned markup
  apiKey,       \* handlers: process.env.BAB_API_KEY, Undefined when not configured
  request,      \* handlers: the request being served
  pc,           \* handlers: where the handler stands
  response,     \* handlers: what res.status(..).json(..) sent, NoResponse before
  calls,        \* handlers: the outbound requests issued so far, in order
  validated,    \* handlers: the strings validateUrl was called on and found valid
  local,        \* /discover: normalizedUrlString, origin, inputType, homepageUrl, feeds, metadata
  probing,      \* /discover: probeFeedPaths, [i, results] of the running batch
  received,     \* handlers: the answers of the page and feed fetches, and whether their body was read
  fnInput,      \* function run: how the argument was built
  fnResult      \* function run: what the function returned, NotCalled before the call

urlVars == <<urlInput, urlString, validation>>
htmlVars == <<htmlInput, htmlDom, htmlBase, sanitized, resanitized>>
handlerVars == <<apiKey, request, pc, response, calls, validated, local, probing, received>>
fnVars == <<fnInput, fnResult>>
vars == <<urlVars, htmlVars, handlerVars, fnVars>>

Null == "null"
\* a string that is absent (undefined or null), among strings
Undefined == <<"undefined">>
\* null where an object may stand, and where a list of item positions (from 1) may stand
NullObject == [null |-> TRUE]
NullPosts == <<0>>
\* a numeric header that is absent
NoHeader == -1
\* the result slot of a call that was not made yet
NotCalled == [valid |-> FALSE, code |-> "NOT_CALLED", message |-> ""]

(***************************************************************************)
(* Strings                                                                 *)
(***************************************************************************)
UpperChars == <<"A","B","C","D","E","F","G","H","I","J","K","L","M","N","O","P","Q","R","S","T","U","V","W","X","Y","Z">>
LowerChars == <<"a","b","c","d","e","f","g","h","i","j","k","l","m","n","o","p","q","r","s","t","u","v","w","x","y","z">>
DigitChars == <<"0","1","2","3","4","5","6","7","8","9">>
HexChars == <<"0","1","2","3","4","5","6","7","8","9","a","b","c","d","e","f">>

Chars(s) == {s[i] : i \in 1..Len(s)}
PosIn(c, s) == CHOOSE i \in 1..Len(s) : s[i] = c
IsUpper(c) == c \in Chars(UpperChars)
IsLower(c) == c \in Chars(LowerChars)
IsAlpha(c) == IsUpper(c) \/ IsLower(c)
IsDigit(c) == c \in Chars(DigitChars)

toLowerCaseChar(c) == IF IsUpper(c) THEN LowerChars[PosIn(c, UpperChars)] ELSE c
toUpperCaseChar(c) == IF IsLower(c) THEN UpperChars[PosIn(c, LowerChars)] ELSE c
toLowerCase(s) == [i \in 1..Len(s) |-> toLowerCaseChar(s[i])]

startsWith(s, p) == Len(p) <= Len(s) /\ SubSeq(s, 1, Len(p)) = p
endsWith(s, p) == Len(p) <= Len(s) /\ SubSeq(s, Len(s) - Len(p) + 1, Len(s)) = p
MatchAt(s, p, i) == i >= 1 /\ i + Len(p) - 1 <= Len(s) /\ SubSeq(s, i, i + Len(p) - 1) = p
includes(s, p) == \E i \in 1..(Len(s) + 1) : MatchAt(s, p, i)
\* the first position of p in s, 0 when there is none
indexOf(s, p) ==
  IF includes(s, p)
  THEN CHOOSE i \in 1..(Len(s) + 1) : MatchAt(s, p, i) /\ \A j \in 1..(i - 1) : ~MatchAt(s, p, j)
  ELSE 0
lastIndexOf(s, p) ==
  IF includes(s, p)
  THEN CHOOSE i \in 1..(Len(s) + 1) : MatchAt(s, p, i) /\ \A j \in (i + 1)..(Len(s) + 1) : ~MatchAt(s, p, j)
  ELSE 0
\* the first position of s holding a character of cs, Len(s) + 1 when there is none
FirstOf(s, cs) ==
  IF \E i \in 1..Len(s) : s[i] \in cs
  THEN CHOOSE i \in 1..Len(s) : s[i] \in cs /\ \A j \in 1..(i - 1) : s[j] \notin cs
  ELSE Len(s) + 1
From(s, i) == SubSeq(s, i, Len(s))

RECURSIVE split(_, _)
split(s, c) ==
  IF c \notin Chars(s) THEN <<s>>
  ELSE <<SubSeq(s, 1, FirstOf(s, {c}) - 1)>> \o split(From(s, FirstOf(s, {c}) + 1), c)

RECURSIVE join(_, _)
join(parts, sep) ==
  IF Len(parts) = 0 THEN <<>>
  ELSE IF Len(parts) = 1 THEN parts[1]
  ELSE parts[1] \o sep \o join(Tail(parts), sep)

Min(a, b) == IF a < b THEN a ELSE b
RECURSIVE Pow(_, _)
Pow(b, e) == IF e = 0 THEN 1 ELSE b * Pow(b, e - 1)

\* the number a digit string denotes in a base, digits being those of HexChars
RECURSIVE ParseNumber(_, _)
ParseNumber(s, base) ==
  IF Len(s) = 0 THEN 0
  ELSE ParseNumber(SubSeq(s, 1, Len(s) - 1), base) * base + (PosIn(s[Len(s)], HexChars) - 1)
IsNumberIn(s, base) == \A i \in 1..Len(s) : s[i] \in Chars(SubSeq(HexChars, 1, base))

\* the shortest digit string of a natural number in a base
RECURSIVE FormatNumber(_, _)
FormatNumber(n, base) ==
  IF n < base THEN <<HexChars[n + 1]>>
  ELSE FormatNumber(n \div base, base) \o <<HexChars[(n % base) + 1]>>

(***************************************************************************)
(* new URL(string): the host parser and serializer of the URL Standard,    *)
(* for the inputs of this model (ASCII, no percent-escapes, no dot         *)
(* segments, no query or fragment inside the authority).                   *)
(***************************************************************************)
C0ControlOrSpace == {" ", "TAB", "SOH", "LF", "CR"}
TabOrNewline == {"TAB", "LF", "CR"}
ForbiddenHostChars == {" ", "SOH", "#", "/", ":", "<", ">", "?", "@", "[", "\\", "]", "^", "|", "%"}
SpecialSchemes == {<<"h","t","t","p">>, <<"h","t","t","p","s">>, <<"f","t","p">>, <<"w","s">>, <<"w","s","s">>}
Failure == [ok |-> FALSE]

RECURSIVE StripLeading(_, _)
StripLeading(s, cs) == IF Len(s) > 0 /\ s[1] \in cs THEN StripLeading(Tail(s), cs) ELSE s
RECURSIVE StripTrailing(_, _)
StripTrailing(s, cs) ==
  IF Len(s) > 0 /\ s[Len(s)] \in cs THEN StripTrailing(SubSeq(s, 1, Len(s) - 1), cs) ELSE s
Without(s, cs) == SelectSeq(s, LAMBDA c : c \notin cs)
\* the URL parser's first steps: strip leading and trailing C0 control or space,
\* then remove every ASCII tab or newline
UrlPreprocess(s) == Without(StripTrailing(StripLeading(s, C0ControlOrSpace), C0ControlOrSpace), TabOrNewline)

\* IPv4 number: decimal, octal with a leading 0, hexadecimal after 0x; -1 when it is none
Ipv4Number(part) ==
  IF Len(part) = 0 THEN -1
  ELSE IF Len(part) >= 2 /\ toLowerCase(SubSeq(part, 1, 2)) = <<"0","x">>
       THEN IF IsNumberIn(toLowerCase(From(part, 3)), 16) THEN ParseNumber(toLowerCase(From(part, 3)), 16) ELSE -1
  ELSE IF Len(part) >= 2 /\ part[1] = "0"
       THEN IF IsNumberIn(part, 8) THEN ParseNumber(part, 8) ELSE -1
  ELSE IF IsNumberIn(part, 10) THEN ParseNumber(part, 10) ELSE -1

DropEmptyLast(parts) ==
  IF Len(parts) > 1 /\ parts[Len(parts)] = <<>> THEN SubSeq(parts, 1, Len(parts) - 1) ELSE parts
Ipv4Parts(host) == DropEmptyLast(split(host, "."))

LastPartIsNumber(last) == Len(last) > 0 /\ (IsNumberIn(last, 10) \/ Ipv4Number(last) >= 0)
LastOf(parts) == parts[Len(parts)]
EndsInANumber(host) == LastPartIsNumber(LastOf(Ipv4Parts(host)))

\* the IPv4 serializer: four decimal bytes joined by "."
SerializeIpv4(bytes) == join([i \in 1..4 |-> FormatNumber(bytes[i], 10)], <<".">>)

\* the serialized IPv4 address of a host that ends in a number, or Failure: every
\* part but the last is one byte, the last part fills the bytes that remain
Ipv4FromNumbers(nums, n) ==
  IF n > 4 \/ \E i \in 1..n : nums[i] < 0 THEN Failure
  ELSE IF \E i \in 1..(n - 1) : nums[i] > 255 THEN Failure
  ELSE IF n > 1 /\ nums[n] >= Pow(256, 5 - n) THEN Failure  \* n = 1: every number here is below 2^32
  ELSE [ok |-> TRUE,
        host |-> SerializeIpv4(SubSeq(nums, 1, n - 1)
                               \o [j \in 1..(5 - n) |-> (nums[n] \div Pow(256, 5 - n - j)) % 256])]
Ipv4FromParts(parts) == Ipv4FromNumbers([i \in 1..Len(parts) |-> Ipv4Number(parts[i])], Len(parts))
ParseIpv4(host) == Ipv4FromParts(Ipv4Parts(host))

IsHextet(g) == Len(g) >= 1 /\ Len(g) <= 4 /\ IsNumberIn(toLowerCase(g), 16)
Zeros(n) == [i \in 1..n |-> 0]
HextetValues(groups) == [i \in 1..Len(groups) |-> ParseNumber(toLowerCase(groups[i]), 16)]
Groups(text) == IF text = <<>> THEN <<>> ELSE split(text, ":")
Ipv6FromGroups(compressed, lg, rg) ==
  IF \E i \in 1..Len(lg) : ~IsHextet(lg[i]) THEN Failure
  ELSE IF \E i \in 1..Len(rg) : ~IsHextet(rg[i]) THEN Failure
  ELSE IF ~compressed /\ Len(lg) # 8 THEN Failure
  ELSE IF compressed /\ Len(lg) + Len(rg) > 7 THEN Failure
  ELSE [ok |-> TRUE,
        pieces |-> HextetValues(lg) \o (IF compressed THEN Zeros(8 - Len(lg) - Len(rg)) ELSE <<>>)
                   \o HextetValues(rg)]
Ipv6Split(text, k) ==
  IF k = 0 THEN Ipv6FromGroups(FALSE, Groups(text), <<>>)
  ELSE Ipv6FromGroups(TRUE, Groups(SubSeq(text, 1, k - 1)), Groups(From(text, k + 2)))
\* the eight 16-bit pieces of an IPv6 literal (no embedded IPv4), or Failure
ParseIpv6(text) == Ipv6Split(text, indexOf(text, <<":",":">>))

\* the length of the run of zero pieces that starts at piece i
RECURSIVE ZeroRun(_, _)
ZeroRun(p, i) == IF i > Len(p) \/ p[i] # 0 THEN 0 ELSE 1 + ZeroRun(p, i + 1)
HexPieces(p, lo, hi) == join([i \in 1..(hi - lo + 1) |-> FormatNumber(p[lo + i - 1], 16)], <<":">>)
\* the start of the first longest run of zero pieces
LongestZeroRun(p) ==
  CHOOSE i \in 1..8 : /\ \A j \in 1..8 : ZeroRun(p, j) <= ZeroRun(p, i)
                      /\ \A j \in 1..(i - 1) : ZeroRun(p, j) < ZeroRun(p, i)
CompressAt(p, best, run) ==
  IF run < 2 THEN HexPieces(p, 1, 8)
  ELSE HexPieces(p, 1, best - 1) \o <<":",":">> \o HexPieces(p, best + run, 8)
CompressFrom(p, best) == CompressAt(p, best, ZeroRun(p, best))
\* the IPv6 serializer: lowercase hexadecimal without leading zeros, the first
\* longest run of two or more zero pieces written "::"
SerializeIpv6(p) == CompressFrom(p, LongestZeroRun(p))

BracketIpv6(a) ==
  IF a.ok THEN [ok |-> TRUE, host |-> <<"[">> \o SerializeIpv6(a.pieces) \o <<"]">>] ELSE Failure
ParseDomain(domain) ==
  IF \E i \in 1..Len(domain) : domain[i] \in ForbiddenHostChars THEN Failure
  ELSE IF EndsInANumber(domain) THEN ParseIpv4(domain)
  ELSE [ok |-> TRUE, host |-> domain]
\* the host parser for a special scheme: [ok, host]
ParseHost(input) ==
  IF Len(input) = 0 THEN Failure
  ELSE IF input[1] = "["
       THEN IF input[Len(input)] # "]" THEN Failure
            ELSE BracketIpv6(ParseIpv6(SubSeq(input, 2, Len(input) - 1)))
  ELSE ParseDomain(toLowerCase(input))

DefaultPort(scheme) ==
  IF scheme \in {<<"h","t","t","p">>, <<"w","s">>} THEN 80 ELSE IF scheme \in {<<"h","t","t","p","s">>, <<"w","s","s">>} THEN 443 ELSE 21

\* the position of the ":" that starts the port, 0 when there is none
PortColon(hostport, close) ==
  IF close # 0 THEN (IF close < Len(hostport) THEN close + 1 ELSE 0)
  ELSE indexOf(hostport, <<":">>)
PortSuffix(scheme, portText) ==
  IF Len(portText) = 0 \/ ParseNumber(portText, 10) = DefaultPort(scheme) THEN <<>>
  ELSE <<":">> \o FormatNumber(ParseNumber(portText, 10), 10)
UrlRecord(scheme, host, origin, path, rest) ==
  [ok |-> TRUE, protocol |-> scheme \o <<":">>, hostname |-> host, pathname |-> path,
   origin |-> origin, href |-> origin \o path \o rest]
SpecialUrl(scheme, h, portText, tail, q) ==
  IF ~h.ok THEN Failure
  ELSE IF ~IsNumberIn(portText, 10) THEN Failure
  ELSE IF Len(portText) > 0 /\ ParseNumber(portText, 10) > 65535 THEN Failure
  ELSE UrlRecord(scheme, h.host, scheme \o <<":","/","/">> \o h.host \o PortSuffix(scheme, portText),
                 IF q = 1 THEN <<"/">> ELSE SubSeq(tail, 1, q - 1), From(tail, q))
HostAndPort(scheme, hostport, colon, tail) ==
  IF colon # 0 /\ hostport[colon] # ":" THEN Failure
  ELSE SpecialUrl(scheme, ParseHost(IF colon = 0 THEN hostport ELSE SubSeq(hostport, 1, colon - 1)),
                  IF colon = 0 THEN <<>> ELSE From(hostport, colon + 1), tail, FirstOf(tail, {"?", "#"}))
Authority(scheme, hostport, tail) ==
  HostAndPort(scheme, hostport, PortColon(hostport, indexOf(hostport, <<"]">>)), tail)
AfterUserinfo(authority) == From(authority, lastIndexOf(authority, <<"@">>) + 1)
AuthorityAndPath(scheme, r, e) == Authority(scheme, AfterUserinfo(SubSeq(r, 1, e - 1)), From(r, e))
SkipSlashes(scheme, r) == AuthorityAndPath(scheme, r, FirstOf(r, {"/", "\\", "?", "#"}))
\* scheme://userinfo@host:port/path of a special scheme
ParseSpecial(scheme, rest) == SkipSlashes(scheme, StripLeading(rest, {"/", "\\"}))

\* a URL of another scheme: its host is kept as written
OpaqueAuthority(rest) ==
  IF startsWith(rest, <<"/","/">>) THEN SubSeq(rest, 3, FirstOf(From(rest, 3), {"/", "?", "#"}) + 1) ELSE <<>>
OtherUrl(scheme, rest, auth) ==
  [ok |-> TRUE, protocol |-> scheme \o <<":">>, hostname |-> auth,
   pathname |-> IF startsWith(rest, <<"/","/">>) THEN From(rest, Len(auth) + 3) ELSE rest,
   origin |-> <<"n","u","l","l">>, href |-> scheme \o <<":">> \o rest]
SchemeChar(c) == IsAlpha(c) \/ IsDigit(c) \/ c \in {"+", "-", "."}
AfterScheme(scheme, rest) ==
  IF scheme \in SpecialSchemes THEN ParseSpecial(scheme, rest)
  ELSE OtherUrl(scheme, rest, OpaqueAuthority(rest))
SchemeAndRest(s, k) ==
  IF k <= 1 THEN Failure
  ELSE IF ~IsAlpha(s[1]) \/ \E i \in 2..(k - 1) : ~SchemeChar(s[i]) THEN Failure
  ELSE AfterScheme(toLowerCase(SubSeq(s, 1, k - 1)), From(s, k + 1))
Preprocessed(s) == SchemeAndRest(s, indexOf(s, <<":">>))
\* new URL(text): [ok |-> FALSE] where the constructor throws
ParseUrl(text) == Preprocessed(UrlPreprocess(text))

(***************************************************************************)
(* lib/ssrf.ts                                                             *)
(***************************************************************************)
INVALID_URL == "INVALID_URL"
BLOCKED_URL == "BLOCKED_URL"

\* the pattern with its last alternative forgotten
Matches172NoThirties(ip) ==
  /\ startsWith(ip, <<"1","7","2",".">>)
  /\ Len(ip) >= 7
  /\ \/ ip[5] = "1" /\ ip[6] \in {"6", "7", "8", "9"}
     \/ ip[5] = "2" /\ IsDigit(ip[6])
  /\ ip[7] = "."

\* /^172\.(1[6-9]|2[0-9]|3[0-1])\./
Matches172(ip) ==
  /\ startsWith(ip, <<"1","7","2",".">>)
  /\ Len(ip) >= 7
  /\ \/ ip[5] = "1" /\ ip[6] \in {"6", "7", "8", "9"}
     \/ ip[5] = "2" /\ IsDigit(ip[6])
     \/ ip[5] = "3" /\ ip[6] \in {"0", "1"}
  /\ ip[7] = "."

PRIVATE_IPV4_RANGES(ip) ==
  \/ startsWith(ip, <<"1","0",".">>)
  \/ Matches172(ip)
  \/ startsWith(ip, <<"1","9","2",".","1","6","8",".">>)
  \/ startsWith(ip, <<"1","2","7",".">>)
  \/ startsWith(ip, <<"1","6","9",".","2","5","4",".">>)
  \/ startsWith(ip, <<"0",".">>)

BLOCKED_HOSTNAMES ==
  {<<"l","o","c","a","l","h","o","s","t">>, <<"m","e","t","a","d","a","t","a",".","g","o","o","g","l","e",".","i","n","t","e","r","n","a","l">>, <<"1","6","9",".","2","5","4",".","1","6","9",".","2","5","4">>, <<"m","e","t","a","d","a","t","a",".","a","z","u","r","e",".","c","o","m">>, <<"[",":",":","1","]">>}

\* the patterns without /\.internal$/i
PatternsWithoutInternal(lower) ==
  \/ endsWith(toLowerCase(lower), <<".","l","o","c","a","l">>)
  \/ endsWith(toLowerCase(lower), <<".","l","o","c","a","l","h","o","s","t">>)

BLOCKED_HOSTNAME_PATTERNS(lower) ==
  \/ endsWith(toLowerCase(lower), <<".","l","o","c","a","l">>)
  \/ endsWith(toLowerCase(lower), <<".","i","n","t","e","r","n","a","l">>)
  \/ endsWith(toLowerCase(lower), <<".","l","o","c","a","l","h","o","s","t">>)

isPrivateIPv4(ip) == PRIVATE_IPV4_RANGES(ip)

PrivateIPv6Normalized(normalized) ==
  \/ normalized = <<":",":","1">> \/ normalized = <<"[",":",":","1","]">>
  \/ startsWith(normalized, <<"f","c">>) \/ startsWith(normalized, <<"f","d">>)
  \/ startsWith(normalized, <<"f","e","8","0">>)
isPrivateIPv6(ip) == PrivateIPv6Normalized(toLowerCase(ip))

BlockedLower(lower) == lower \in BLOCKED_HOSTNAMES \/ BLOCKED_HOSTNAME_PATTERNS(lower)
isBlockedHostname(hostname) == BlockedLower(toLowerCase(hostname))

\* /^\d{1,3}\.\d{1,3}\.\d{1,3}\.\d{1,3}$/
FourShortNumbers(parts) ==
  Len(parts) = 4 /\ \A i \in 1..4 : Len(parts[i]) \in 1..3 /\ IsNumberIn(parts[i], 10)
LooksLikeIPv4(hostname) == FourShortNumbers(split(hostname, "."))

looksLikeIP(hostname) ==
  \/ LooksLikeIPv4(hostname)
  \/ includes(hostname, <<":">>) \/ startsWith(hostname, <<"[">>)

\* hostname.replace(/^\[|\]$/g, '')
RemoveClosing(a) == IF Len(a) > 0 /\ a[Len(a)] = "]" THEN SubSeq(a, 1, Len(a) - 1) ELSE a
RemoveBrackets(hostname) ==
  RemoveClosing(IF Len(hostname) > 0 /\ hostname[1] = "[" THEN Tail(hostname) ELSE hostname)

Invalid(code, message) == [valid |-> FALSE, code |-> code, message |-> message]

Valid(url) == [valid |-> TRUE, code |-> Null, message |-> "", url |-> url]

\* the checks of validateUrl on the lower-cased hostname
HostChecks(url, hostname, cleanIP) ==
  IF isBlockedHostname(hostname) THEN Invalid(BLOCKED_URL, "URL points to a blocked host")
  ELSE IF looksLikeIP(hostname) /\ isPrivateIPv4(cleanIP)
       THEN Invalid(BLOCKED_URL, "URL points to a private IP address")
  ELSE IF looksLikeIP(hostname) /\ isPrivateIPv6(cleanIP)
       THEN Invalid(BLOCKED_URL, "URL points to a private IPv6 address")
  ELSE Valid(url)
CheckHostname(url, hostname) == HostChecks(url, hostname, RemoveBrackets(hostname))

\* validateUrl with the host checks placed before the protocol check
ChecksHostFirst(url) ==
  IF ~url.ok THEN Invalid(INVALID_URL, "URL is malformed")
  ELSE IF isBlockedHostname(url.hostname) THEN Invalid(BLOCKED_URL, "URL points to a blocked host")
  ELSE IF url.protocol # <<"h","t","t","p",":">> /\ url.protocol # <<"h","t","t","p","s",":">>
       THEN Invalid(INVALID_URL, "URL must use HTTP or HTTPS protocol")
  ELSE Valid(url)

\* validateUrl after new URL(urlString)
ValidateParsed(url) ==
  IF ~url.ok THEN Invalid(INVALID_URL, "URL is malformed")
  ELSE IF url.protocol # <<"h","t","t","p",":">> /\ url.protocol # <<"h","t","t","p","s",":">>
       THEN Invalid(INVALID_URL, "URL must use HTTP or HTTPS protocol")
  ELSE CheckHostname(url, toLowerCase(url.hostname))

validateUrl(string) == ValidateParsed(ParseUrl(string))

(***************************************************************************)
(* new URL(url, baseUrl): a reference resolved against an http(s) base.    *)
(***************************************************************************)
HasScheme(s, k) == k >= 2 /\ IsAlpha(s[1]) /\ \A i \in 2..(k - 1) : SchemeChar(s[i])

\* the path's segments with "." dropped and ".." dropping the segment before it
RECURSIVE RemoveDotSegments(_, _)
RemoveDotSegments(segments, done) ==
  IF Len(segments) = 0 THEN done
  ELSE IF Head(segments) = <<".">>
       THEN RemoveDotSegments(Tail(segments), IF Len(segments) = 1 THEN Append(done, <<>>) ELSE done)
  ELSE IF Head(segments) = <<".",".">>
       THEN RemoveDotSegments(Tail(segments),
              IF Len(segments) = 1 THEN Append(SubSeq(done, 1, Len(done) - 1), <<>>)
              ELSE SubSeq(done, 1, Len(done) - 1))
  ELSE RemoveDotSegments(Tail(segments), Append(done, Head(segments)))
\* a path that starts with "/", normalized
NormalizePath(path) == <<"/">> \o join(RemoveDotSegments(split(Tail(path), "/"), <<>>), <<"/">>)
Directory(path) == SubSeq(path, 1, lastIndexOf(path, <<"/">>))
Resolved(href) == [ok |-> TRUE, href |-> href]
HrefOf(url) == IF url.ok THEN Resolved(url.href) ELSE Failure

\* a reference without a scheme
ResolveRelative(s, base) ==
  IF Len(s) = 0 THEN Resolved(base.origin \o base.pathname)
  ELSE IF startsWith(s, <<"/","/">>) THEN HrefOf(ParseSpecial(SubSeq(base.protocol, 1, Len(base.protocol) - 1), s))
  ELSE IF s[1] \in {"/", "\\"} THEN Resolved(base.origin \o NormalizePath(s))
  ELSE IF s[1] \in {"?", "#"} THEN Resolved(base.origin \o base.pathname \o s)
  ELSE Resolved(base.origin \o NormalizePath(Directory(base.pathname) \o s))

\* a reference with a scheme: a special scheme is parsed with its authority (or, when
\* it is the base's scheme and no slash follows, as a relative reference), any
\* other scheme keeps what follows the colon
ResolveWithScheme(scheme, rest, base) ==
  IF scheme \in SpecialSchemes
  THEN IF scheme \o <<":">> = base.protocol /\ ~(Len(rest) > 0 /\ rest[1] \in {"/", "\\"})
       THEN ResolveRelative(rest, base)
       ELSE HrefOf(ParseSpecial(scheme, rest))
  ELSE Resolved(scheme \o <<":">> \o rest)
ResolvePreprocessed(s, k, base) ==
  IF HasScheme(s, k) THEN ResolveWithScheme(toLowerCase(SubSeq(s, 1, k - 1)), From(s, k + 1), base)
  ELSE ResolveRelative(s, base)
ResolveAgainst(s, base) == ResolvePreprocessed(s, indexOf(s, <<":">>), base)
\* new URL(url, baseUrl).href as [ok, href]; ok is FALSE where the constructor throws
NewUrl(url, baseUrl) ==
  IF ParseUrl(baseUrl).ok /\ ParseUrl(baseUrl).protocol \in {<<"h","t","t","p",":">>, <<"h","t","t","p","s",":">>}
  THEN ResolveAgainst(UrlPreprocess(url), ParseUrl(baseUrl))
  ELSE Failure

(***************************************************************************)
(* lib/sanitize.ts.  A document is a table of nodes: node 0 is the body    *)
(* that parseHTML builds around the fragment, kids lists children in       *)
(* document order, a text node has the tag "#text".  Tag and attribute     *)
(* names are the parser's lower-case names.                                *)
(***************************************************************************)
ALLOWED_TAGS ==
  {"h1", "h2", "h3", "h4", "h5", "h6", "p", "br", "ul", "ol", "li", "blockquote", "pre", "code",
   "em", "strong", "b", "i", "u", "s", "mark", "a", "img", "figure", "figcaption", "table", "thead",
   "tbody", "tr", "th", "td", "hr", "sup", "sub", "details", "summary", "div", "span", "article",
   "section", "aside", "header", "footer", "main", "time", "abbr", "cite", "dfn", "kbd", "samp",
   "var", "small", "dl", "dt", "dd", "caption", "col", "colgroup", "picture", "source", "video", "audio"}

DANGEROUS_TAGS ==
  {"script", "style", "link", "meta", "iframe", "embed", "object", "form", "input", "button",
   "select", "textarea", "noscript", "template", "svg"}

\* ALLOWED_ATTRS[tagName] || []
ALLOWED_ATTRS(tagName) ==
  CASE tagName = "a" -> {"href"}
    [] tagName = "img" -> {"src", "alt", "title"}
    [] tagName = "source" -> {"src", "srcset", "type", "media"}
    [] tagName = "video" -> {"src", "poster", "width", "height"}
    [] tagName = "audio" -> {"src"}
    [] tagName = "time" -> {"datetime"}
    [] tagName \in {"abbr", "dfn"} -> {"title"}
    [] tagName = "td" -> {"colspan", "rowspan"}
    [] tagName = "th" -> {"colspan", "rowspan", "scope"}
    [] tagName \in {"col", "colgroup"} -> {"span"}
    [] OTHER -> {}

TextTag == "#text"
Root == 0
IsElement(dom, n) == dom[n].tag # TextTag

\* el.getAttribute(name): the value, or Null when the attribute is absent
HasAttribute(attrs, name) == \E i \in 1..Len(attrs) : attrs[i].name = name
getAttribute(attrs, name) ==
  IF HasAttribute(attrs, name) THEN attrs[CHOOSE i \in 1..Len(attrs) : attrs[i].name = name].value ELSE Null
setAttribute(attrs, name, value) ==
  [i \in 1..Len(attrs) |-> IF attrs[i].name = name THEN [name |-> name, value |-> value] ELSE attrs[i]]
removeAttribute(attrs, name) == SelectSeq(attrs, LAMBDA a : a.name # name)
\* a JavaScript string that is truthy: present and not empty
Truthy(value) == value # Null /\ value # Undefined /\ value # <<>>

\* the elements below and including n, in document order
RECURSIVE querySelectorAll(_, _)
RECURSIVE SelectAllIn(_, _)
querySelectorAll(dom, n) ==
  IF IsElement(dom, n) THEN <<n>> \o SelectAllIn(dom, dom[n].kids) ELSE <<>>
SelectAllIn(dom, kids) ==
  IF Len(kids) = 0 THEN <<>> ELSE querySelectorAll(dom, Head(kids)) \o SelectAllIn(dom, Tail(kids))

\* el.remove() for every element of a dangerous tag
RemoveDangerous(dom) ==
  [n \in DOMAIN dom |->
     [dom[n] EXCEPT !.kids = SelectSeq(@, LAMBDA k : dom[k].tag \notin DANGEROUS_TAGS)]]

NoParent == -1
parentNode(dom, el) ==
  IF \E n \in DOMAIN dom : el \in Chars(dom[n].kids)
  THEN CHOOSE n \in DOMAIN dom : el \in Chars(dom[n].kids)
  ELSE NoParent
\* while (el.firstChild) parent.insertBefore(el.firstChild, el); parent.removeChild(el)
ReplaceByChildren(dom, el, parent, at) ==
  [dom EXCEPT ![parent].kids = SubSeq(@, 1, at - 1) \o dom[el].kids \o SubSeq(@, at + 1, Len(@)),
              ![el].kids = <<>>]
Unwrap(dom, el, parent) ==
  IF parent = NoParent THEN dom
  ELSE ReplaceByChildren(dom, el, parent, PosIn(el, dom[parent].kids))

WhiteSpace == {" ", "TAB", "LF", "CR"}
trim(s) == StripTrailing(StripLeading(s, WhiteSpace), WhiteSpace)

\* try { el.setAttribute(name, new URL(value, baseUrl).href) } catch { leave as-is }
SetIfResolved(attrs, name, resolved) ==
  IF resolved.ok THEN setAttribute(attrs, name, resolved.href) ELSE attrs
ResolveAttribute(attrs, name, baseUrl) ==
  SetIfResolved(attrs, name, NewUrl(getAttribute(attrs, name), baseUrl))

AnchorHref(attrs, href, hrefLower, baseUrl) ==
  IF ~Truthy(href) THEN attrs
  ELSE IF \/ startsWith(hrefLower, <<"j","a","v","a","s","c","r","i","p","t",":">>)
          \/ startsWith(hrefLower, <<"d","a","t","a",":">>)
          \/ startsWith(hrefLower, <<"v","b","s","c","r","i","p","t",":">>)
       THEN removeAttribute(attrs, "href")
  ELSE IF /\ ~startsWith(href, <<"h","t","t","p",":","/","/">>) /\ ~startsWith(href, <<"h","t","t","p","s",":","/","/">>)
          /\ ~startsWith(href, <<"m","a","i","l","t","o",":">>) /\ ~startsWith(href, <<"#">>)
       THEN ResolveAttribute(attrs, "href", baseUrl)
  ELSE attrs
LowerTrimmed(value) == IF value = Null THEN Null ELSE trim(toLowerCase(value))
SanitizeAnchor(attrs, baseUrl) ==
  AnchorHref(attrs, getAttribute(attrs, "href"), LowerTrimmed(getAttribute(attrs, "href")), baseUrl)

ImageSrc(attrs, src, srcLower, baseUrl) ==
  IF ~Truthy(src) THEN attrs
  ELSE IF startsWith(srcLower, <<"d","a","t","a",":">>) THEN attrs
  ELSE IF ~startsWith(src, <<"h","t","t","p",":","/","/">>) /\ ~startsWith(src, <<"h","t","t","p","s",":","/","/">>)
       THEN ResolveAttribute(attrs, "src", baseUrl)
  ELSE attrs
SanitizeImage(attrs, baseUrl) ==
  ImageSrc(attrs, getAttribute(attrs, "src"), LowerTrimmed(getAttribute(attrs, "src")), baseUrl)

\* the test shared by source.src, video.poster and the srcset entries
NeedsResolving(url) ==
  /\ Truthy(url)
  /\ ~startsWith(url, <<"h","t","t","p",":","/","/">>) /\ ~startsWith(url, <<"h","t","t","p","s",":","/","/">>) /\ ~startsWith(url, <<"d","a","t","a",":">>)
ResolveIfNeeded(attrs, name, baseUrl) ==
  IF NeedsResolving(getAttribute(attrs, name)) THEN ResolveAttribute(attrs, name, baseUrl) ELSE attrs

\* entry.split(/\s+/) of a trimmed entry
RECURSIVE splitWhiteSpace(_)
splitWhiteSpace(s) ==
  IF FirstOf(s, WhiteSpace) > Len(s) THEN <<s>>
  ELSE <<SubSeq(s, 1, FirstOf(s, WhiteSpace) - 1)>>
       \o splitWhiteSpace(StripLeading(From(s, FirstOf(s, WhiteSpace)), WhiteSpace))
ResolvedOr(url, resolved) == IF resolved.ok THEN resolved.href ELSE url
SrcsetParts(parts, baseUrl) ==
  IF NeedsResolving(parts[1])
  THEN <<ResolvedOr(parts[1], NewUrl(parts[1], baseUrl))>> \o Tail(parts)
  ELSE parts
SrcsetEntry(entry, baseUrl) == join(SrcsetParts(splitWhiteSpace(trim(entry)), baseUrl), <<" ">>)
MapEntries(entries, baseUrl) == [i \in 1..Len(entries) |-> SrcsetEntry(entries[i], baseUrl)]
resolveSrcset(srcset, baseUrl) == join(MapEntries(split(srcset, ","), baseUrl), <<","," ">>)

SourceSrcset(attrs, baseUrl) ==
  IF Truthy(getAttribute(attrs, "srcset"))
  THEN setAttribute(attrs, "srcset", resolveSrcset(getAttribute(attrs, "srcset"), baseUrl))
  ELSE attrs
SanitizeSource(attrs, baseUrl) == SourceSrcset(ResolveIfNeeded(attrs, "src", baseUrl), baseUrl)
SanitizeVideo(attrs, baseUrl) == ResolveIfNeeded(attrs, "poster", baseUrl)

\* the attributes of an allowed element after the loop body
AllowedOnly(tagName, attrs) == SelectSeq(attrs, LAMBDA a : a.name \in ALLOWED_ATTRS(tagName))
UrlAttributes(tagName, attrs, baseUrl) ==
  CASE tagName = "a" -> SanitizeAnchor(attrs, baseUrl)
    [] tagName = "img" -> SanitizeImage(attrs, baseUrl)
    [] tagName = "source" -> SanitizeSource(attrs, baseUrl)
    [] tagName = "video" -> SanitizeVideo(attrs, baseUrl)
    [] OTHER -> attrs
SanitizeAttributes(tagName, attrs, baseUrl) == UrlAttributes(tagName, AllowedOnly(tagName, attrs), baseUrl)

\* one pass of the loop over allElements
ProcessElement(dom, el, baseUrl) ==
  IF dom[el].tag \in {"html", "head", "body"} THEN dom
  ELSE IF dom[el].tag \notin ALLOWED_TAGS THEN Unwrap(dom, el, parentNode(dom, el))
  ELSE [dom EXCEPT ![el].attrs = SanitizeAttributes(dom[el].tag, @, baseUrl)]

RECURSIVE ProcessAll(_, _, _)
ProcessAll(dom, allElements, baseUrl) ==
  IF Len(allElements) = 0 THEN dom
  ELSE ProcessAll(ProcessElement(dom, Head(allElements), baseUrl), Tail(allElements), baseUrl)

ProcessRemaining(dom, baseUrl) == ProcessAll(dom, querySelectorAll(dom, Root), baseUrl)
\* sanitizeHtml on the parsed fragment; the result is the document whose
\* body.innerHTML is returned
sanitizeHtml(dom, baseUrl) == ProcessRemaining(RemoveDangerous(dom), baseUrl)

(***************************************************************************)
(* lib/config.ts and the helpers of api/discover.ts                        *)
(***************************************************************************)
MAX_RESPONSE_SIZE == 10 * 1024 * 1024
MAX_HTML_SIZE == 5 * 1024 * 1024
\* timeout limits in milliseconds
DEFAULT_FETCH_TIMEOUT == 10000
DEFAULT_PARSE_TIMEOUT == 15000
DEFAULT_DISCOVER_TIMEOUT == 20000
MAX_TIMEOUT == 30000
MAX_DISCOVER_TIMEOUT == 45000
\* Math.min(body.timeout || DEFAULT, MAX): an absent timeout is written 0, falsy like it
TimeoutOf(requested, default, max) == Min(IF requested # 0 THEN requested ELSE default, max)
FETCH_FAILED == "FETCH_FAILED"
TIMEOUT == "TIMEOUT"
CONTENT_TOO_LARGE == "CONTENT_TOO_LARGE"
PARSE_FAILED == "PARSE_FAILED"
DISCOVERY_FAILED == "DISCOVERY_FAILED"
COMMON_FEED_PATHS ==
  <<<<"/","f","e","e","d">>, <<"/","r","s","s">>, <<"/","a","t","o","m",".","x","m","l">>, <<"/","f","e","e","d",".","x","m","l">>, <<"/","r","s","s",".","x","m","l">>, <<"/","i","n","d","e","x",".","x","m","l">>,
    <<"/","f","e","e","d","s","/","p","o","s","t","s","/","d","e","f","a","u","l","t">>, <<"/","b","l","o","g","/","f","e","e","d">>, <<"/","f","e","e","d","/","r","s","s">>, <<"/","f","e","e","d","/","a","t","o","m">>>>

\* /^@?[a-zA-Z0-9_-]+$/.test(input) && !input.includes('.')
UsernameChar(c) == IsAlpha(c) \/ IsDigit(c) \/ c \in {"_", "-"}
WithoutAt(input) == IF Len(input) > 0 /\ input[1] = "@" THEN Tail(input) ELSE input
isUsernameInput(input) ==
  /\ Len(WithoutAt(input)) >= 1
  /\ \A i \in 1..Len(WithoutAt(input)) : UsernameChar(WithoutAt(input)[i])
  /\ ~includes(input, <<".">>)

NormalizeTrimmed(trimmed) ==
  IF startsWith(trimmed, <<"h","t","t","p",":","/","/">>) \/ startsWith(trimmed, <<"h","t","t","p","s",":","/","/">>) THEN trimmed
  ELSE <<"h","t","t","p","s",":","/","/">> \o trimmed
normalizeUrl(input) == NormalizeTrimmed(trim(input))

\* /\d{n}/ at position i
DigitsAt(path, i, n) == i + n - 1 <= Len(path) /\ \A j \in i..(i + n - 1) : IsDigit(path[j])
\* \/\d{4}\/ at position i
YearAt(path, i) == MatchAt(path, <<"/">>, i) /\ DigitsAt(path, i + 1, 4) /\ MatchAt(path, <<"/">>, i + 5)
FeedPath(path) ==
  \/ endsWith(path, <<".","x","m","l">>) \/ endsWith(path, <<".","r","s","s">>) \/ endsWith(path, <<".","a","t","o","m">>)
  \/ includes(path, <<"/","f","e","e","d">>) \/ includes(path, <<"/","r","s","s">>) \/ includes(path, <<"/","a","t","o","m">>)
ArticlePath(path) ==
  \/ \E i \in 1..Len(path) : YearAt(path, i)
  \/ includes(path, <<"/","p","o","s","t","/">>) \/ includes(path, <<"/","p","o","s","t","s","/">>)
  \/ includes(path, <<"/","a","r","t","i","c","l","e","/">>) \/ includes(path, <<"/","a","r","t","i","c","l","e","s","/">>)
  \/ includes(path, <<"/","b","l","o","g","/">>) /\ Len(split(path, "/")) > 3
ArticleFirst(path) ==
  IF ArticlePath(path) THEN "article" ELSE IF FeedPath(path) THEN "feed" ELSE "homepage"
TypeOfPath(path) ==
  IF FeedPath(path) THEN "feed" ELSE IF ArticlePath(path) THEN "article" ELSE "homepage"
detectInputType(url) == TypeOfPath(toLowerCase(url.pathname))

\* the five articlePatterns, each as the test of what follows the lazy prefix (.*?)
YearMonthAt(path, i) == YearAt(path, i) /\ DigitsAt(path, i + 6, 2) /\ MatchAt(path, <<"/">>, i + 8)
PostsAt(path, i) == MatchAt(path, <<"/","p","o","s","t","/">>, i) \/ MatchAt(path, <<"/","p","o","s","t","s","/">>, i)
ArticlesAt(path, i) == MatchAt(path, <<"/","a","r","t","i","c","l","e","/">>, i) \/ MatchAt(path, <<"/","a","r","t","i","c","l","e","s","/">>, i)
BlogSlugAt(path, i) ==
  /\ MatchAt(path, <<"/","b","l","o","g","/">>, i)
  /\ i + 6 <= Len(path)
  /\ "/" \notin Chars(From(path, i + 6))
\* the length of the shortest prefix after which the pattern matches, -1 when there is none
LazyPrefix(path, At(_, _)) ==
  IF \E i \in 1..Len(path) : At(path, i)
  THEN (CHOOSE i \in 1..Len(path) : At(path, i) /\ \A j \in 1..(i - 1) : ~At(path, j)) - 1
  ELSE -1
FirstPattern(prefixes) ==
  IF \E k \in 1..Len(prefixes) : prefixes[k] >= 0
  THEN prefixes[CHOOSE k \in 1..Len(prefixes) : prefixes[k] >= 0 /\ \A j \in 1..(k - 1) : prefixes[j] < 0]
  ELSE -1
\* `${url.origin}${basePath || '/'}`, url.origin when no pattern matches
HomepageOf(url, prefix) ==
  IF prefix < 0 THEN url.origin
  ELSE IF prefix = 0 THEN url.origin \o <<"/">>
  ELSE url.origin \o SubSeq(url.pathname, 1, prefix)
extractHomepageUrl(url) ==
  HomepageOf(url, FirstPattern(<<LazyPrefix(url.pathname, YearMonthAt), LazyPrefix(url.pathname, YearAt),
                                 LazyPrefix(url.pathname, PostsAt), LazyPrefix(url.pathname, ArticlesAt),
                                 LazyPrefix(url.pathname, BlogSlugAt)>>))

resolveUrl(url, base) ==
  IF ~Truthy(url) THEN url
  ELSE IF startsWith(url, <<"h","t","t","p",":","/","/">>) \/ startsWith(url, <<"h","t","t","p","s",":","/","/">>) THEN url
  ELSE IF startsWith(url, <<"d","a","t","a",":">>) THEN url
  ELSE ResolvedOr(url, NewUrl(url, base))

\* a link[rel="alternate"] element is [type, href, title], Undefined for a missing attribute
FeedInfo(url, title, type) == [url |-> url, title |-> title, type |-> type]
LinkFeedType(type) ==
  IF type = Undefined THEN "skip"
  ELSE IF includes(toLowerCase(type), <<"r","s","s">>) THEN "rss"
  ELSE IF includes(toLowerCase(type), <<"a","t","o","m">>) THEN "atom"
  ELSE "skip"
FeedOfLink(link, base) ==
  IF ~Truthy(link.href) \/ LinkFeedType(link.type) = "skip" THEN <<>>
  ELSE <<FeedInfo(resolveUrl(link.href, base), link.title, LinkFeedType(link.type))>>
RECURSIVE discoverFeedsFromHtml(_, _)
discoverFeedsFromHtml(linkElements, base) ==
  IF Len(linkElements) = 0 THEN <<>>
  ELSE FeedOfLink(Head(linkElements), base) \o discoverFeedsFromHtml(Tail(linkElements), base)

(***************************************************************************)
(* The validator alone: validateUrl applied to one input string.           *)
(***************************************************************************)
HttpSchemes == {<<"h","t","t","p">>, <<"h","t","t","p","s">>}
Schemes == HttpSchemes \cup {<<"H","T","T","P">>, <<"h","T","T","p","S">>, <<"f","t","p">>, <<"f","i","l","e">>, <<"j","a","v","a","s","c","r","i","p","t">>, <<"g","o","p","h","e","r">>, <<>>, <<"1","h","t","t","p">>, <<"h","t"," ","t","p">>}
Separators == {<<":","/","/">>, <<":">>, <<"/","/">>, <<>>}
Tails == {<<>>, <<"/">>, <<"/","l","a","t","e","s","t","/","m","e","t","a","-","d","a","t","a">>, <<":","8","0","8","0","/","x">>}

\* a host in one of four letter cases: as written, upper, and two alternations
CaseMix(s, style) ==
  [i \in 1..Len(s) |->
     IF style = "upper" \/ (style = "alt1" /\ i % 2 = 1) \/ (style = "alt2" /\ i % 2 = 0)
     THEN toUpperCaseChar(s[i]) ELSE s[i]]
CaseStyles == {"lower", "upper", "alt1", "alt2"}

V4Octet1 ==
  {0, 1, 9, 10, 11, 17, 26, 100, 101, 109, 126, 127, 128, 168, 169, 170, 171, 172, 173, 191, 192, 193, 254, 255}
V4Octet2 == {0, 15, 16, 17, 19, 20, 29, 31, 32, 100, 167, 168, 169, 253, 254, 255}
V4Low == {<<0, 1>>, <<169, 254>>}
WriteIpv4(o) == join([i \in 1..4 |-> FormatNumber(o[i], 10)], <<".">>)

\* fc00 fc01 fcff fd00 fdff fe00, fe7f fe80 fe81 fe8f fe90 fea0 feb0 febf fec0, fbff ffff 2001 1 fc
V6First == {64512, 64513, 64767, 64768, 65023, 65024, 65151, 65152, 65153, 65167, 65168, 65184, 65200,
            65215, 65216, 64511, 65535, 8193, 1, 252}
V6Last == {0, 1}
V6Styles == {"full", "upper", "short"}
WriteIpv6(p, style) ==
  IF style = "full" THEN HexPieces(p, 1, 8)
  ELSE IF style = "upper" THEN CaseMix(HexPieces(p, 1, 8), "upper")
  ELSE SerializeIpv6(p)

ListedHosts == {<<"l","o","c","a","l","h","o","s","t">>, <<"m","e","t","a","d","a","t","a",".","g","o","o","g","l","e",".","i","n","t","e","r","n","a","l">>, <<"1","6","9",".","2","5","4",".","1","6","9",".","2","5","4">>, <<"m","e","t","a","d","a","t","a",".","a","z","u","r","e",".","c","o","m">>, <<"[",":",":","1","]">>}
SuffixHosts == {<<"p","r","i","n","t","e","r",".","l","o","c","a","l">>, <<"d","b",".","c","o","r","p",".","i","n","t","e","r","n","a","l">>, <<"a","p","p",".","l","o","c","a","l","h","o","s","t">>, <<"a",".","l","o","c","a","l">>}
OtherHosts == {<<"e","x","a","m","p","l","e",".","c","o","m">>, <<"l","o","c","a","l">>, <<"i","n","t","e","r","n","a","l">>, <<"l","o","c","a","l","h","o","s","t",".","c","o","m">>, <<"m","y","l","o","c","a","l">>, <<"e","x","a","m","p","l","e",".","l","o","c","a","l","x">>,
               <<"l","o","c","a","l",".","e","x","a","m","p","l","e",".","c","o","m">>, <<"m","e","t","a","d","a","t","a",".","a","z","u","r","e",".","c","o","m",".","e","v","i","l",".","o","r","g">>, <<"1","0",".","e","x","a","m","p","l","e",".","c","o","m">>, <<"f","c",".","e","x","a","m","p","l","e",".","c","o","m">>}

\* base is the host as first written, host the same in the letter case of the input
Input(kind, scheme, sep, base, host, tail, numbers) ==
  [kind |-> kind, scheme |-> scheme, sep |-> sep, base |-> base, host |-> host, tail |-> tail,
   numbers |-> numbers]

UrlInputs ==
  {Input("ipv4", sch, <<":","/","/">>, WriteIpv4(<<a, b>> \o low), WriteIpv4(<<a, b>> \o low), <<"/","f","e","e","d">>, <<a, b>> \o low) :
     sch \in {<<"h","t","t","p">>}, a \in V4Octet1, b \in V4Octet2, low \in V4Low}
  \cup
  {Input("ipv4", sch, <<":","/","/">>, WriteIpv4(<<a, 168, 1, 1>>), WriteIpv4(<<a, 168, 1, 1>>), t, <<a, 168, 1, 1>>) :
     sch \in Schemes, a \in {8, 10, 192}, t \in Tails}
  \cup
  {Input("ipv6", sch, <<":","/","/">>, SerializeIpv6(<<f, 0, 0, 0, 0, 0, 0, l>>),
         <<"[">> \o WriteIpv6(<<f, 0, 0, 0, 0, 0, 0, l>>, st) \o <<"]">>, <<"/">>, <<f, 0, 0, 0, 0, 0, 0, l>>) :
     sch \in {<<"h","t","t","p">>, <<"h","t","t","p","s">>, <<"f","t","p">>}, f \in V6First \cup {0}, l \in V6Last, st \in V6Styles}
  \cup
  {Input("name", sch, <<":","/","/">>, h, CaseMix(h, cs), t, <<>>) :
     sch \in Schemes, h \in ListedHosts \cup SuffixHosts \cup OtherHosts,
     cs \in CaseStyles, t \in {<<>>, <<":","8","0","8","0","/","x">>}}
  \cup
  {Input("name", sch, sep, h, h, t, <<>>) :
     sch \in Schemes, sep \in Separators, h \in {<<"e","x","a","m","p","l","e",".","c","o","m">>, <<"l","o","c","a","l","h","o","s","t">>}, t \in Tails}
  \cup
  {Input("name", sch, sep, <<>>, <<>>, t, <<>>) : sch \in Schemes, sep \in Separators, t \in {<<>>, <<"/">>}}

ValidatorIdle == urlInput = Null /\ urlString = <<>> /\ validation = NotCalled
FunctionsIdle == fnInput = Null /\ fnResult = NotCalled
EmptyDocument == [n \in {0} |-> [tag |-> "body", attrs |-> <<>>, kids |-> <<>>, text |-> 0]]
NotSanitized == [done |-> FALSE, dom |-> EmptyDocument]
SanitizerIdle ==
  /\ htmlInput = Null /\ htmlDom = EmptyDocument /\ htmlBase = <<>>
  /\ sanitized = NotSanitized /\ resanitized = NotSanitized

NoRequest == [endpoint |-> "none"]
NoResponse == [status |-> 0, body |-> Null]
NoLocals == [inputType |-> Null]
NotProbing == [i |-> 0, results |-> <<>>, found |-> <<>>]
HandlersIdle ==
  /\ apiKey = Undefined /\ request = NoRequest /\ pc = "idle" /\ response = NoResponse
  /\ calls = <<>> /\ validated = {} /\ local = NoLocals /\ probing = NotProbing /\ received = <<>>

BuildUrl(in) == in.scheme \o in.sep \o in.host \o in.tail

InitValidate ==
  /\ urlInput \in UrlInputs
  /\ urlString = BuildUrl(urlInput)
  /\ validation = NotCalled
  /\ SanitizerIdle
  /\ HandlersIdle
  /\ FunctionsIdle

Validate ==
  /\ validation = NotCalled
  /\ validation' = validateUrl(urlString)
  /\ UNCHANGED <<urlInput, urlString, htmlVars, handlerVars, fnVars>>

NextValidate == Validate

SpecValidate == InitValidate /\ [][NextValidate]_vars

Validated == validation # NotCalled
HttpInput == urlInput.scheme \in HttpSchemes /\ urlInput.sep = <<":","/","/">>

\* the six reserved IPv4 ranges, on the four bytes of the address
InReservedIpv4(o) ==
  \/ o[1] = 10
  \/ o[1] = 172 /\ o[2] >= 16 /\ o[2] <= 31
  \/ o[1] = 192 /\ o[2] = 168
  \/ o[1] = 127
  \/ o[1] = 169 /\ o[2] = 254
  \/ o[1] = 0

\* C2: for an http(s) URL whose host is the IPv4 literal a.b.c.d, validateUrl answers
\* BLOCKED_URL when the address lies in 10/8, 172.16/12, 192.168/16, 127/8,
\* 169.254/16 or 0/8, and valid for every other address.
C2_Ipv4Ranges ==
  (Validated /\ urlInput.kind = "ipv4" /\ HttpInput) =>
    IF InReservedIpv4(urlInput.numbers)
    THEN ~validation.valid /\ validation.code = BLOCKED_URL
    ELSE validation.valid

C2_Witness ==
  /\ Validated /\ HttpInput
  /\ urlInput.numbers = <<172, 31, 169, 254>>
  /\ validation.code = BLOCKED_URL

\* C3: an http(s) URL whose host, in any letter case, is one of the listed hosts or
\* ends in .local, .internal or .localhost is answered BLOCKED_URL; with any scheme
\* it is never answered valid.
C3_BlockedHostnames ==
  (Validated /\ urlInput.kind = "name" /\ urlInput.base \in ListedHosts \cup SuffixHosts) =>
    /\ ~validation.valid
    /\ HttpInput => validation.code = BLOCKED_URL

C3_Witness ==
  /\ Validated /\ HttpInput
  /\ urlInput.base = <<"d","b",".","c","o","r","p",".","i","n","t","e","r","n","a","l">>
  /\ urlInput.host = <<"d","B",".","C","o","R","p",".","i","N","t","E","r","N","a","L">>
  /\ validation.code = BLOCKED_URL

\* fc00::/7: the first seven bits are 1111110; fe80::/10: the first ten are 1111111010
InUniqueLocal(p) == p[1] \div 512 = 126
InLinkLocal(p) == p[1] \div 64 = 1018
IsLoopback(p) == p = <<0, 0, 0, 0, 0, 0, 0, 1>>

\* C4: for an http(s) URL whose host is an IPv6 literal, validateUrl answers
\* BLOCKED_URL when the address is ::1, lies in fc00::/7 or lies in fe80::/10.
C4_Ipv6Ranges ==
  (Validated /\ urlInput.kind = "ipv6" /\ HttpInput) =>
    ((IsLoopback(urlInput.numbers) \/ InUniqueLocal(urlInput.numbers) \/ InLinkLocal(urlInput.numbers))
       => validation.code = BLOCKED_URL)

\* C5: validateUrl answers valid only for an http or https URL; a string the URL
\* parser rejects, and a URL of any other scheme, is answered INVALID_URL, also
\* when its host is one the host checks would block.
NoHttpUrl ==
  \/ toLowerCase(urlInput.scheme) \notin HttpSchemes
  \/ ":" \notin Chars(urlInput.sep)
  \/ urlInput.host = <<>>
C5_SchemeFirst ==
  Validated =>
    /\ validation.valid => toLowerCase(urlInput.scheme) \in HttpSchemes
    /\ NoHttpUrl => (~validation.valid /\ validation.code = INVALID_URL)

C5_Witness ==
  /\ Validated
  /\ urlInput.scheme = <<"f","t","p">> /\ urlInput.sep = <<":","/","/">> /\ urlInput.base = <<"l","o","c","a","l","h","o","s","t">>
  /\ validation.code = INVALID_URL

(***************************************************************************)
(* The sanitizer alone: sanitizeHtml is applied to a parsed fragment.      *)
(* Two families of fragments: trees of MaxNodes nodes over a few tags (an  *)
(* allowed one, an unknown one, a dangerous one, a nested body, text), and *)
(* one element that carries a URL attribute.                               *)
(***************************************************************************)
MaxNodes == 3
TreeTags == {"div", "font", "form", "body", TextTag}
TreeParents == {f \in [1..MaxNodes -> 0..(MaxNodes - 1)] : \A i \in 1..MaxNodes : f[i] < i}
ChildrenOf(parents, n) == SelectSeq([i \in 1..MaxNodes |-> i], LAMBDA i : parents[i] = n)
\* what the parser can build: a text node has no children and no text node beside it
NoTextRun(kids, t) == \A i \in 1..(Len(kids) - 1) : t[kids[i]] # TextTag \/ t[kids[i + 1]] # TextTag
TreeLabels(parents) ==
  {t \in [1..MaxNodes -> TreeTags] :
     /\ \A i \in 1..MaxNodes : parents[i] # Root => t[parents[i]] # TextTag
     /\ \A n \in 0..MaxNodes : NoTextRun(ChildrenOf(parents, n), t)}
Attr(name, value) == [name |-> name, value |-> value]
\* the attributes a decorated element of the tree is written with
Decoration(tag) ==
  CASE tag = "div" -> <<Attr("class", <<"c">>), Attr("onclick", <<"e","(",")">>)>>
    [] tag = "font" -> <<Attr("color", <<"r","e","d">>)>>
    [] tag = "form" -> <<Attr("action", <<"/","s">>)>>
    [] tag = "body" -> <<Attr("onload", <<"e","(",")">>)>>
    [] OTHER -> <<>>
TreeNode(in, n) ==
  IF n = Root THEN [tag |-> "body", attrs |-> <<>>, kids |-> ChildrenOf(in.parents, Root), text |-> 0]
  ELSE [tag |-> in.tags[n],
        attrs |-> IF in.decorated THEN Decoration(in.tags[n]) ELSE <<>>,
        kids |-> ChildrenOf(in.parents, n),
        text |-> IF in.tags[n] = TextTag THEN n ELSE 0]
TreeInput(p, t, d) ==
  [kind |-> "tree", parents |-> p, tags |-> t, decorated |-> d, base |-> <<"h","t","t","p","s",":","/","/","e","x","a","m","p","l","e",".","c","o","m","/","b","l","o","g","/","p","o","s","t">>]
TreeInputs == UNION {{TreeInput(p, t, d) : t \in TreeLabels(p), d \in BOOLEAN} : p \in TreeParents}

UrlPrefixes == {<<>>, <<" ">>, <<"TAB">>, <<"SOH">>}
UrlBodies ==
  {<<"j","a","v","a","s","c","r","i","p","t",":","a","l","e","r","t","(","1",")">>, <<"J","a","v","a","S","c","r","i","p","t",":","a","l","e","r","t","(","1",")">>, <<"j","a","v","a","TAB","s","c","r","i","p","t",":","a","l","e","r","t","(","1",")">>, <<"v","b","s","c","r","i","p","t",":","x">>,
   <<"d","a","t","a",":","t","e","x","t","/","h","t","m","l",",","x">>, <<"D","A","T","A",":","i","m","a","g","e","/","p","n","g",";","b","a","s","e","6","4",",","A","A">>, <<"h","t","t","p",":","/","/","a",".","i","o","/","x",".","p","n","g">>, <<"h","t","t","p","s",":","/","/","a",".","i","o","/">>,
   <<"H","T","T","P",":","/","/","A",".","i","o","/","x">>, <<"m","a","i","l","t","o",":","a","@","b",".","i","o">>, <<"#","t","o","p">>, <<"/","i","m","g","/","a",".","p","n","g">>, <<"a",".","p","n","g">>, <<".",".","/","u","p","/","a",".","p","n","g">>,
   <<".","/","a",".","p","n","g">>, <<"/","/","c","d","n",".","i","o","/","a",".","p","n","g">>, <<"?","p","a","g","e","=","2">>, <<>>, <<"h","t","t","p",":","/","/">>, <<"f","t","p",":","/","/","f",".","i","o","/","x">>}
UrlAttributeOf == {<<"a", "href">>, <<"img", "src">>, <<"source", "src">>,
                   <<"video", "src">>, <<"video", "poster">>, <<"audio", "src">>}
Bases == {<<"h","t","t","p","s",":","/","/","e","x","a","m","p","l","e",".","c","o","m","/","b","l","o","g","/","p","o","s","t">>, <<"h","t","t","p",":","/","/","e","x","a","m","p","l","e",".","c","o","m","/">>}
AttributeInputs ==
  {[kind |-> "attribute", tag |-> ta[1], name |-> ta[2], value |-> prefix \o body, base |-> b] :
     ta \in UrlAttributeOf, prefix \in UrlPrefixes, body \in UrlBodies, b \in Bases}

\* srcset values written from image candidates [url, descriptor]
CandidateUrls == {<<"a",".","p","n","g">>, <<"/","b",".","p","n","g">>, <<".",".","/","c",".","p","n","g">>, <<"h","t","t","p",":","/","/","a",".","i","o","/","x",".","p","n","g">>, <<"d","a","t","a",":","i","m","a","g","e","/","p","n","g",";","b","a","s","e","6","4",",","A","A">>}
Candidates == {[url |-> u, descriptor |-> d] : u \in CandidateUrls, d \in {<<>>, <<"2","x">>}}
WriteCandidate(c) == IF c.descriptor = <<>> THEN c.url ELSE c.url \o <<" ">> \o c.descriptor
CandidateLists == {<<c>> : c \in Candidates} \cup {<<c, d>> : c \in Candidates, d \in Candidates}
SrcsetInputs ==
  {[kind |-> "srcset", tag |-> "source", name |-> "srcset", candidates |-> cs,
    value |-> join([i \in 1..Len(cs) |-> WriteCandidate(cs[i])], sep), base |-> b] :
     cs \in CandidateLists, sep \in {<<",">>, <<","," ">>}, b \in Bases}

HtmlInputs == TreeInputs \cup AttributeInputs \cup SrcsetInputs

\* <tag onclick="e()" name="value">text</tag>, the text only where the element has content
ElementDocument(in) ==
  [n \in (IF in.tag \in {"img", "source"} THEN 0..1 ELSE 0..2) |->
     CASE n = 0 -> [tag |-> "body", attrs |-> <<>>, kids |-> <<1>>, text |-> 0]
       [] n = 1 -> [tag |-> in.tag, attrs |-> <<Attr("onclick", <<"e","(",")">>), Attr(in.name, in.value)>>,
                    kids |-> IF in.tag \in {"img", "source"} THEN <<>> ELSE <<2>>, text |-> 0]
       [] n = 2 -> [tag |-> TextTag, attrs |-> <<>>, kids |-> <<>>, text |-> 2]]
TreeDocument(in) == [n \in 0..MaxNodes |-> TreeNode(in, n)]
BuildDocument(in) == IF in.kind = "tree" THEN TreeDocument(in) ELSE ElementDocument(in)

InitSanitize ==
  /\ htmlInput \in HtmlInputs
  /\ htmlDom = BuildDocument(htmlInput)
  /\ htmlBase = htmlInput.base
  /\ sanitized = NotSanitized
  /\ resanitized = NotSanitized
  /\ ValidatorIdle
  /\ HandlersIdle
  /\ FunctionsIdle

Sanitize ==
  /\ ~sanitized.done
  /\ sanitized' = [done |-> TRUE, dom |-> sanitizeHtml(htmlDom, htmlBase)]
  /\ UNCHANGED <<htmlInput, htmlDom, htmlBase, resanitized, urlVars, handlerVars, fnVars>>

\* document.body.innerHTML, then parseHTML of that markup: the markup of a node is its
\* tag, its attributes and the markup of its children; consecutive text nodes are
\* written one after the other, and are read back as one text node
RECURSIVE Digits(_)
Digits(n) == IF n < 10 THEN 1 ELSE 1 + Digits(n \div 10)
Concat(a, b) == a * Pow(10, Digits(b)) + b
IsText(dom, kids, i) == i >= 1 /\ i <= Len(kids) /\ dom[kids[i]].tag = TextTag
StartsRun(dom, kids, i) == IsText(dom, kids, i) /\ ~IsText(dom, kids, i - 1)
RECURSIVE RunText(_, _, _)
RunText(dom, kids, i) ==
  IF IsText(dom, kids, i + 1)
  THEN Concat(dom[kids[i]].text, RunText(dom, kids, i + 1))
  ELSE dom[kids[i]].text
RECURSIVE Serialized(_, _, _)
Serialized(dom, kids, i) ==
  IF i > Len(kids) THEN <<>>
  ELSE IF StartsRun(dom, kids, i)
    THEN <<<<TextTag, RunText(dom, kids, i)>>>> \o Serialized(dom, kids, i + 1)
  ELSE IF IsText(dom, kids, i) THEN Serialized(dom, kids, i + 1)
  ELSE <<<<dom[kids[i]].tag, dom[kids[i]].attrs, Serialized(dom, dom[kids[i]].kids, 1)>>>>
         \o Serialized(dom, kids, i + 1)
innerHTML(dom) == Serialized(dom, dom[Root].kids, 1)

RECURSIVE ParsedKids(_, _, _)
ParsedKids(dom, kids, i) ==
  IF i > Len(kids) THEN <<>>
  ELSE IF IsText(dom, kids, i) /\ ~StartsRun(dom, kids, i) THEN ParsedKids(dom, kids, i + 1)
  ELSE <<kids[i]>> \o ParsedKids(dom, kids, i + 1)
ParsedText(dom, n, parent) ==
  IF parent = NoParent THEN dom[n].text
  ELSE IF StartsRun(dom, dom[parent].kids, PosIn(n, dom[parent].kids))
    THEN RunText(dom, dom[parent].kids, PosIn(n, dom[parent].kids))
  ELSE dom[n].text
\* parseHTML(`<!DOCTYPE html><html><body>${html}</body></html>`) for html = innerHTML(dom)
Reparsed(dom) ==
  [n \in DOMAIN dom |->
     IF dom[n].tag = TextTag
     THEN [dom[n] EXCEPT !.text = ParsedText(dom, n, parentNode(dom, n))]
     ELSE [dom[n] EXCEPT !.kids = ParsedKids(dom, @, 1)]]

\* sanitizeHtml(sanitizeHtml(html, baseUrl), baseUrl)
SanitizeAgain ==
  /\ sanitized.done
  /\ ~resanitized.done
  /\ resanitized' = [done |-> TRUE, dom |-> sanitizeHtml(Reparsed(sanitized.dom), htmlBase)]
  /\ UNCHANGED <<htmlInput, htmlDom, htmlBase, sanitized, urlVars, handlerVars, fnVars>>

NextSanitize == Sanitize \/ SanitizeAgain

SpecSanitize == InitSanitize /\ [][NextSanitize]_vars

\* the elements of the returned body.innerHTML
OutputElements == Chars(Tail(querySelectorAll(sanitized.dom, Root)))

\* C7: after sanitizeHtml every element of the output has a tag in ALLOWED_TAGS and
\* carries only attributes that ALLOWED_ATTRS lists for its tag.
C7_OnlyAllowed ==
  sanitized.done =>
    \A n \in OutputElements :
      /\ sanitized.dom[n].tag \in ALLOWED_TAGS
      /\ \A i \in 1..Len(sanitized.dom[n].attrs) :
           sanitized.dom[n].attrs[i].name \in ALLOWED_ATTRS(sanitized.dom[n].tag)

\* the three schemes the anchor check names, as the code tests them
ScriptUrl(value) ==
  \/ startsWith(toLowerCase(trim(value)), <<"j","a","v","a","s","c","r","i","p","t",":">>)
  \/ startsWith(toLowerCase(trim(value)), <<"d","a","t","a",":">>)
  \/ startsWith(toLowerCase(trim(value)), <<"v","b","s","c","r","i","p","t",":">>)
AnchorInput == htmlInput.kind = "attribute" /\ htmlInput.tag = "a"

\* C8: no anchor of the output has an href that starts with javascript:, data: or
\* vbscript:; an anchor whose href had such a scheme is kept, with its text, without href.
C8_NoScriptHref ==
  (sanitized.done /\ AnchorInput) =>
    /\ 1 \in OutputElements
    /\ sanitized.dom[1].kids = <<2>>
    /\ ScriptUrl(htmlInput.value) => ~HasAttribute(sanitized.dom[1].attrs, "href")
    /\ HasAttribute(sanitized.dom[1].attrs, "href") => ~ScriptUrl(getAttribute(sanitized.dom[1].attrs, "href"))

\* a subtree as <<tag, text, children>>, and the forest the claim describes: nothing
\* for a dangerous element, the children's forest for an element outside ALLOWED_TAGS
RECURSIVE Shape(_, _)
RECURSIVE ShapeList(_, _)
Shape(dom, n) == <<dom[n].tag, dom[n].text, ShapeList(dom, dom[n].kids)>>
ShapeList(dom, kids) ==
  IF Len(kids) = 0 THEN <<>> ELSE <<Shape(dom, Head(kids))>> \o ShapeList(dom, Tail(kids))
RECURSIVE Surviving(_, _)
RECURSIVE SurvivingList(_, _)
Surviving(dom, n) ==
  IF dom[n].tag = TextTag THEN <<Shape(dom, n)>>
  ELSE IF dom[n].tag \in DANGEROUS_TAGS THEN <<>>
  ELSE IF dom[n].tag \in ALLOWED_TAGS THEN <<<<dom[n].tag, 0, SurvivingList(dom, dom[n].kids)>>>>
  ELSE SurvivingList(dom, dom[n].kids)
SurvivingList(dom, kids) ==
  IF Len(kids) = 0 THEN <<>> ELSE Surviving(dom, Head(kids)) \o SurvivingList(dom, Tail(kids))

\* C9: every dangerous element is removed with its descendants, every other element
\* outside ALLOWED_TAGS is replaced by its children in place, and the text and allowed
\* elements that remain keep their document order and nesting.
C9_RemoveAndUnwrap ==
  sanitized.done =>
    ShapeList(sanitized.dom, sanitized.dom[Root].kids) = SurvivingList(htmlDom, htmlDom[Root].kids)

\* a reference without a scheme that is not a fragment
RelativeReference(value, s) ==
  /\ Len(s) > 0
  /\ s[1] # "#"
  /\ ~HasScheme(s, indexOf(s, <<":">>))
Resolvable(value, base) ==
  RelativeReference(value, UrlPreprocess(value)) /\ NewUrl(value, base).ok
ExpectedCandidate(c, base) ==
  WriteCandidate([c EXCEPT !.url = IF Resolvable(c.url, base) THEN NewUrl(c.url, base).href ELSE c.url])
ExpectedSrcset(cs, base) == join([i \in 1..Len(cs) |-> ExpectedCandidate(cs[i], base)], <<","," ">>)
OutputValue == getAttribute(sanitized.dom[1].attrs, htmlInput.name)

\* C10: a relative URL in a surviving href, src, srcset or poster of a, img, source,
\* video or audio is resolved against baseUrl when it can be, and a data: URI in src,
\* srcset or poster is kept verbatim.
C10_UrlsResolved ==
  sanitized.done =>
    /\ htmlInput.kind = "attribute" =>
         /\ Resolvable(htmlInput.value, htmlBase) => OutputValue = NewUrl(htmlInput.value, htmlBase).href
         /\ (htmlInput.name # "href" /\ startsWith(htmlInput.value, <<"d","a","t","a",":">>)) => OutputValue = htmlInput.value
    /\ htmlInput.kind = "srcset" => OutputValue = ExpectedSrcset(htmlInput.candidates, htmlBase)

\* C11: sanitizeHtml is idempotent: for every markup and base URL, sanitizing the
\* returned markup again with the same base URL returns the same markup.
C11_Idempotent ==
  resanitized.done => innerHTML(resanitized.dom) = innerHTML(sanitized.dom)


(***************************************************************************)
(* The handlers of /discover, /fetch and /parse serving one request.  The  *)
(* remote servers are the environment: each outbound call is answered by   *)
(* one of a few outcomes.                                                  *)
(***************************************************************************)
\* lib/auth.ts
constantTimeCompare(a, b) == Len(a) = Len(b) /\ \A i \in 1..Len(a) : a[i] = b[i]
validateAuth(req, API_KEY) ==
  IF ~Truthy(API_KEY) THEN TRUE
  ELSE IF ~Truthy(req.key) THEN FALSE
  ELSE constantTimeCompare(req.key, API_KEY)

Response(status, body) == [status |-> status, body |-> body]
ErrorBody(code, message) == [success |-> FALSE, error |-> [code |-> code, message |-> message]]
ValidationError(urlValidation) == ErrorBody(urlValidation.code, urlValidation.message)
Call(url, method, for, timeout) == [url |-> url, method |-> method, for |-> for, timeout |-> timeout]

\* the gates without the API key check
GatesWithoutKey(req, API_KEY) ==
  IF req.method = "OPTIONS" THEN Response(204, Null)
  ELSE IF req.method # "POST" THEN Response(405, ErrorBody("METHOD_NOT_ALLOWED", "Method not allowed"))
  ELSE IF ~req.body.parses THEN Response(400, ErrorBody(INVALID_URL, "Invalid request body"))
  ELSE IF ~Truthy(req.body.url) THEN Response(400, ErrorBody(INVALID_URL, "Missing required field: url"))
  ELSE NoResponse

\* the gates the three handlers share, NoResponse when the request passes them
CommonGates(req, API_KEY) ==
  IF req.method = "OPTIONS" THEN Response(204, Null)
  ELSE IF req.method # "POST" THEN Response(405, ErrorBody("METHOD_NOT_ALLOWED", "Method not allowed"))
  ELSE IF ~validateAuth(req, API_KEY)
       THEN Response(401, [ok |-> FALSE, error |-> "Invalid or missing API key"])
  ELSE IF ~req.body.parses THEN Response(400, ErrorBody(INVALID_URL, "Invalid request body"))
  ELSE IF ~Truthy(req.body.url) THEN Response(400, ErrorBody(INVALID_URL, "Missing required field: url"))
  ELSE NoResponse

Respond(status, body) == response' = Response(status, body) /\ pc' = "done"
Issue(url, method, for, timeout) == calls' = Append(calls, Call(url, method, for, timeout))

Suggestion(platform, url, label) == [platform |-> platform, url |-> url, label |-> label]
PlatformHint(username) ==
  [success |-> TRUE, platform_hint |-> TRUE, input |-> username,
   suggestions |-> <<Suggestion("substack", <<"h","t","t","p","s",":","/","/">> \o username \o <<".","s","u","b","s","t","a","c","k",".","c","o","m">>, "Substack"),
                     Suggestion("medium", <<"h","t","t","p","s",":","/","/","m","e","d","i","u","m",".","c","o","m","/","@">> \o username, "Medium"),
                     Suggestion("ghost", <<"h","t","t","p","s",":","/","/">> \o username \o <<".","g","h","o","s","t",".","i","o">>, "Ghost")>>]
\* parsed is what parseFeed gave: [metadata, posts, contentAnalysis], all null without it
NothingParsed == [metadata |-> NullObject, posts |-> NullPosts, contentAnalysis |-> NullObject]
\* feeds.length > 0 ? feeds[0].url : null
NoRecommendation(feeds) == Null
FirstFeedUrl(feeds) == IF Len(feeds) > 0 THEN feeds[1].url ELSE Null
DiscoverSuccess(inputType, normalized, feeds, recommended, parsed, message) ==
  [success |-> TRUE, input_type |-> inputType, normalized_url |-> normalized, feeds |-> feeds,
   recommended_feed |-> recommended,
   metadata |-> parsed.metadata, content_analysis |-> parsed.contentAnalysis,
   recent_posts |-> parsed.posts, message |-> message]

\* the timeout budget: Math.floor of 0.3, 0.4 / 3 and 0.2 of the total, on whole milliseconds
TotalTimeout(requested) == TimeoutOf(requested, DEFAULT_DISCOVER_TIMEOUT, MAX_DISCOVER_TIMEOUT)
\* /discover after validateUrl accepted the normalized input
DiscoverAccepted(normalizedUrlString, url, inputType) ==
  /\ validated' = validated \cup {normalizedUrlString}
  /\ local' = [normalizedUrlString |-> normalizedUrlString, origin |-> url.origin, inputType |-> inputType,
               homepageUrl |-> IF inputType = "article" THEN extractHomepageUrl(url) ELSE normalizedUrlString,
               totalTimeout |-> TotalTimeout(request.body.timeout),
               homepageTimeout |-> (TotalTimeout(request.body.timeout) * 3) \div 10,
               probeTimeout |-> (TotalTimeout(request.body.timeout) * 4) \div 30,
               parseTimeout |-> (TotalTimeout(request.body.timeout) * 2) \div 10,
               isValid |-> "unset", html |-> <<>>, feeds |-> <<>>, parsed |-> "unset",
               metadata |-> NullObject, recentPosts |-> NullPosts, contentAnalysis |-> NullObject]
  /\ pc' = IF inputType = "feed" THEN "validateFeed" ELSE "fetchHomepage"
  /\ UNCHANGED <<response, calls, probing>>
DiscoverValidated(normalizedUrlString, urlValidation) ==
  IF ~urlValidation.valid
  THEN Respond(200, ValidationError(urlValidation)) /\ UNCHANGED <<calls, validated, local, probing>>
  ELSE DiscoverAccepted(normalizedUrlString, urlValidation.url, detectInputType(urlValidation.url))
DiscoverNormalized(normalizedUrlString) ==
  DiscoverValidated(normalizedUrlString, validateUrl(normalizedUrlString))
DiscoverInput(input) ==
  IF isUsernameInput(input)
  THEN Respond(200, PlatformHint(WithoutAt(input))) /\ UNCHANGED <<calls, validated, local, probing>>
  ELSE DiscoverNormalized(normalizeUrl(input))
Rejected(gate) == response' = gate /\ pc' = "done" /\ UNCHANGED <<calls, validated, local, probing>>

\* /discover from its entry to the first await
DiscoverGates ==
  /\ pc = "received" /\ request.endpoint = "discover"
  /\ IF CommonGates(request, apiKey) # NoResponse THEN Rejected(CommonGates(request, apiKey))
     ELSE DiscoverInput(trim(request.body.url))
  /\ UNCHANGED <<apiKey, request, received, urlVars, htmlVars, fnVars>>

\* validateFeedUrl answered: a fetch error, a non-2xx status, a body without a feed
\* marker, or a feed
\* local.isValid keeps what validateFeedUrl answered
\* "stalled": a 2xx answer whose body never ends; fetchWithTimeout has cleared its timer
\* when the headers arrived, so response.text() is awaited without a limit
FeedValidations == {"error", "notOk", "noMarker", "feed", "stalled"}
ValidateFeedKeepingUrl(outcome) ==
  /\ pc = "validateFeed"
  /\ Issue(local.normalizedUrlString, "GET", "validateFeedUrl", local.homepageTimeout)
  /\ IF outcome = "stalled" THEN pc' = "readBody" /\ UNCHANGED local
     ELSE IF outcome # "feed"
     THEN /\ local' = [local EXCEPT !.isValid = outcome]
          /\ pc' = "fetchHomepage"
     ELSE /\ local' = [local EXCEPT !.isValid = outcome,
                                    !.feeds = <<FeedInfo(local.normalizedUrlString, Undefined, "unknown")>>]
          /\ pc' = "parseDirect"
  /\ UNCHANGED <<apiKey, request, response, validated, probing, received, urlVars, htmlVars, fnVars>>
ValidateFeed(outcome) ==
  /\ pc = "validateFeed"
  /\ Issue(local.normalizedUrlString, "GET", "validateFeedUrl", local.homepageTimeout)
  /\ IF outcome = "stalled" THEN pc' = "readBody" /\ UNCHANGED local
     ELSE IF outcome # "feed"
     THEN /\ local' = [local EXCEPT !.isValid = outcome, !.inputType = "homepage", !.homepageUrl = local.origin]
          /\ pc' = "fetchHomepage"
     ELSE /\ local' = [local EXCEPT !.isValid = outcome,
                                    !.feeds = <<FeedInfo(local.normalizedUrlString, Undefined, "unknown")>>]
          /\ pc' = "parseDirect"
  /\ UNCHANGED <<apiKey, request, response, validated, probing, received, urlVars, htmlVars, fnVars>>

\* what parser.parseURL gives: a failure, or a feed with its title and link
NotParsed == [ok |-> FALSE]
FeedItems == {0, 4}
ParsedFeeds ==
  {NotParsed} \cup
  {[ok |-> TRUE, title |-> t, link |-> l, items |-> n] :
     t \in {Undefined, <<"B","l","o","g">>}, l \in {Undefined, <<"h","t","t","p","s",":","/","/","e","x","a","m","p","l","e",".","c","o","m","/">>, <<"h","t","t","p",":","/","/","1","0",".","0",".","0",".","1","/","a","d","m","i","n">>},
     n \in FeedItems}
FeedMetadata(feed, feedUrl) ==
  [title |-> IF Truthy(feed.title) THEN feed.title ELSE <<"U","n","t","i","t","l","e","d">>,
   link |-> IF Truthy(feed.link) THEN feed.link ELSE feedUrl]
\* (feed.items || []).slice(0, 3), an item written as its position in the feed
RecentPosts(feed) == [k \in 1..Min(feed.items, 3) |-> k]
\* analyzeFullContent, of which only the sample size is kept
ContentAnalysis(feed) == [sample_size |-> Min(feed.items, 5)]
Parsed(feed, feedUrl) ==
  [metadata |-> FeedMetadata(feed, feedUrl), posts |-> RecentPosts(feed), contentAnalysis |-> ContentAnalysis(feed)]
LocalParsed == [metadata |-> local.metadata, posts |-> local.recentPosts, contentAnalysis |-> local.contentAnalysis]
WithTitle(feeds, title) == [feeds EXCEPT ![1].title = title]

\* parseFeed(normalizedUrlString) answered on the feed path
ParseDirect(feed) ==
  /\ pc = "parseDirect"
  /\ Issue(local.normalizedUrlString, "GET", "parseFeed", local.parseTimeout)
  /\ IF feed.ok
     THEN /\ local' = [local EXCEPT !.parsed = "parsed",
                                    !.metadata = FeedMetadata(feed, local.normalizedUrlString),
                                    !.recentPosts = RecentPosts(feed),
                                    !.contentAnalysis = ContentAnalysis(feed),
                                    !.feeds = WithTitle(@, FeedMetadata(feed, local.normalizedUrlString).title)]
          /\ pc' = "fetchImages"
          /\ UNCHANGED response
     ELSE /\ Respond(200, DiscoverSuccess("feed", local.normalizedUrlString, local.feeds, local.normalizedUrlString, NothingParsed, Null))
          /\ local' = [local EXCEPT !.parsed = "null"]
  /\ UNCHANGED <<apiKey, request, validated, probing, received, urlVars, htmlVars, fnVars>>

\* the fetch of metadata.link for the images answered; its errors are ignored
FetchImages(outcome) ==
  /\ pc = "fetchImages"
  /\ Issue(local.metadata.link, "GET", "images", local.homepageTimeout)
  /\ IF outcome = "stalled" THEN pc' = "readBody" /\ UNCHANGED response
     ELSE Respond(200, DiscoverSuccess("feed", local.normalizedUrlString, local.feeds, local.normalizedUrlString, LocalParsed, Null))
  /\ UNCHANGED <<apiKey, request, validated, local, probing, received, urlVars, htmlVars, fnVars>>

\* what a GET of a page or feed can give: a network error, a timeout, or a response
\* with its status, content-length header (NoHeader when absent), byte length and, for a
\* page, what the handler reads from it
Thrown == {[kind |-> "error"], [kind |-> "timeout"]}
\* a 2xx answer without content-length whose body never ends: the timer of the fetch was
\* cleared when the headers arrived, and the read of the body is awaited without a limit
StalledBody == [kind |-> "stalled"]
AwaitBody == pc' = "readBody" /\ UNCHANGED <<response, local, probing>>
Answer(status, contentLength, byteLength, reads, content) ==
  [kind |-> "response", status |-> status, contentLength |-> contentLength, byteLength |-> byteLength,
   reads |-> reads, content |-> content]
Ok(answer) == answer.status >= 200 /\ answer.status <= 299
\* the answer of a page or feed fetch as the handler met it: read tells whether the
\* handler went on to read the body (response.arrayBuffer())
Received(for, answer, read) ==
  [for |-> for, status |-> answer.status, contentLength |-> answer.contentLength,
   byteLength |-> answer.byteLength, read |-> read]
Answered(for, outcome, read) ==
  received' = IF outcome.kind = "response" THEN Append(received, Received(for, outcome, read)) ELSE received
ThrownError(outcome) ==
  IF outcome.kind = "timeout" THEN ErrorBody(TIMEOUT, "Request timed out")
  ELSE ErrorBody(FETCH_FAILED, "Network error during fetch")

Link(type, href, title) == [type |-> type, href |-> href, title |-> title]
LinkElements ==
  {<<>>,
   <<Link(<<"a","p","p","l","i","c","a","t","i","o","n","/","r","s","s","+","x","m","l">>, <<"/","f","e","e","d",".","x","m","l">>, <<"P","o","s","t","s">>)>>,
   <<Link(<<"a","p","p","l","i","c","a","t","i","o","n","/","r","s","s","+","x","m","l">>, <<"h","t","t","p",":","/","/","1","6","9",".","2","5","4",".","1","6","9",".","2","5","4","/","l","a","t","e","s","t","/","f","e","e","d">>, Undefined)>>,
   <<Link(<<"t","e","x","t","/","h","t","m","l">>, <<"/","f","r","/">>, Undefined), Link(<<"a","p","p","l","i","c","a","t","i","o","n","/","a","t","o","m","+","x","m","l">>, <<"h","t","t","p","s",":","/","/","f","e","e","d","s",".","e","x","a","m","p","l","e",".","n","e","t","/","a","t","o","m">>, Undefined),
     Link(<<"A","p","p","l","i","c","a","t","i","o","n","/","R","S","S","+","X","M","L">>, <<"/","r","s","s">>, <<"R","S","S">>)>>,
   <<Link(Undefined, <<"/","x">>, Undefined), Link(<<"a","p","p","l","i","c","a","t","i","o","n","/","r","s","s","+","x","m","l">>, Undefined, Undefined)>>}
\* a 2xx answer whose page makes parseHTML or the feed extraction throw: the outer catch
BrokenPage == [kind |-> "broken"]
HomepageOutcomes ==
  Thrown \cup {StalledBody, BrokenPage}
         \cup {Answer(404, NoHeader, 512, TRUE, <<>>), Answer(200, 512, MAX_HTML_SIZE + 1, TRUE, <<>>),
               Answer(200, MAX_HTML_SIZE + 1, MAX_HTML_SIZE + 1, TRUE, <<>>)}
         \cup {Answer(200, NoHeader, 512, TRUE, links) : links \in LinkElements}

NoFeedsError == ErrorBody(DISCOVERY_FAILED, "No RSS or Atom feeds found for this URL")
NoFeedsSuccess ==
  DiscoverSuccess(local.inputType, local.homepageUrl, <<>>, FirstFeedUrl(<<>>), NothingParsed, "No RSS or Atom feeds found for this URL")

\* the homepage page read: the declared feeds, or probing when there is none;
\* local.html is the page as its link[rel="alternate"] elements
HomepageReadThenProbe(html, feeds) ==
  /\ local' = [local EXCEPT !.html = html, !.feeds = feeds]
  /\ probing' = [i |-> 0, results |-> <<>>, found |-> <<>>, origin |-> ParseUrl(local.homepageUrl).origin]
  /\ pc' = "probe"
  /\ UNCHANGED response
HomepageRead(html, feeds) ==
  /\ local' = [local EXCEPT !.html = html, !.feeds = feeds]
  /\ probing' = [i |-> 0, results |-> <<>>, found |-> <<>>, origin |-> ParseUrl(local.homepageUrl).origin]
  /\ pc' = IF Len(feeds) = 0 THEN "probe" ELSE "parseRecommended"
  /\ UNCHANGED response
\* the fetch of homepageUrl answered
FetchHomepage(outcome) ==
  /\ pc = "fetchHomepage"
  /\ Issue(local.homepageUrl, "GET", "homepage", local.homepageTimeout)
  /\ IF outcome = StalledBody THEN AwaitBody
     ELSE IF outcome = BrokenPage
          THEN Respond(200, ErrorBody(DISCOVERY_FAILED, "Could not complete feed discovery"))
               /\ UNCHANGED <<local, probing>>
     ELSE IF outcome.kind # "response" THEN Respond(200, ThrownError(outcome)) /\ UNCHANGED <<local, probing>>
     ELSE IF ~Ok(outcome)
          THEN Respond(200, ErrorBody(FETCH_FAILED, "HTTP status")) /\ UNCHANGED <<local, probing>>
     ELSE IF outcome.byteLength > MAX_HTML_SIZE
          THEN Respond(200, ErrorBody(CONTENT_TOO_LARGE, "HTML exceeds maximum size"))
               /\ UNCHANGED <<local, probing>>
     ELSE HomepageRead(outcome.content, discoverFeedsFromHtml(outcome.content, local.homepageUrl))
  /\ Answered("homepage", outcome, Ok(outcome))
  /\ UNCHANGED <<apiKey, request, validated, urlVars, htmlVars, fnVars>>

\* probeFeedPaths
batchSize == 3
RemainingPaths(i) == SubSeq(COMMON_FEED_PATHS, i + 1, Len(COMMON_FEED_PATHS))
Batch(i) == SubSeq(COMMON_FEED_PATHS, i + 1, Min(i + batchSize, Len(COMMON_FEED_PATHS)))
ProbeUrls(origin, batch) == [k \in 1..Len(batch) |-> origin \o batch[k]]
ProbeCalls(urls) ==
  [k \in 1..Len(urls) |-> Call(urls[k], "HEAD", "probe", local.probeTimeout)]
\* what becomes of one probe: not settled yet, skipped because validateUrl rejected its
\* URL, fetchWithTimeout rejected (network error, or abort at the timeout), or a response
Probe(kind, ok, contentType) == [kind |-> kind, ok |-> ok, contentType |-> contentType]
Pending == Probe("pending", FALSE, <<>>)
Skipped == Probe("skipped", FALSE, <<>>)
ProbeOutcomes ==
  {Probe("error", FALSE, <<>>), Probe("timeout", FALSE, <<>>),
   Probe("response", FALSE, <<"a","p","p","l","i","c","a","t","i","o","n","/","r","s","s","+","x","m","l">>), Probe("response", TRUE, <<"t","e","x","t","/","h","t","m","l">>),
   Probe("response", TRUE, <<"a","p","p","l","i","c","a","t","i","o","n","/","r","s","s","+","x","m","l">>), Probe("response", TRUE, <<"a","p","p","l","i","c","a","t","i","o","n","/","a","t","o","m","+","x","m","l">>)}
\* the batch is mapped: each probe validates its URL and, when valid, issues its HEAD
StartProbes(urls) ==
  /\ probing' = [probing EXCEPT
                   !.results = [k \in 1..Len(urls) |-> IF validateUrl(urls[k]).valid THEN Pending ELSE Skipped]]
  /\ calls' = calls \o SelectSeq(ProbeCalls(urls), LAMBDA c : validateUrl(c.url).valid)
  /\ validated' = validated \cup {urls[k] : k \in {j \in 1..Len(urls) : validateUrl(urls[j]).valid}}
StartBatch ==
  /\ pc = "probe"
  /\ StartProbes(ProbeUrls(probing.origin, Batch(probing.i)))
  /\ pc' = "batch"
  /\ UNCHANGED <<apiKey, request, response, local, received, urlVars, htmlVars, fnVars>>

\* one probe settles; the others of the batch stay as they are
SettleProbe(k, outcome) ==
  /\ pc = "batch"
  /\ k \in 1..Len(probing.results)
  /\ probing.results[k] = Pending
  /\ probing' = [probing EXCEPT !.results[k] = outcome]
  /\ UNCHANGED <<apiKey, request, pc, response, calls, validated, local, received, urlVars, htmlVars, fnVars>>

\* response.ok and a content type with xml, rss or atom in it
IsFeedContentType(contentType) ==
  includes(contentType, <<"x","m","l">>) \/ includes(contentType, <<"r","s","s">>) \/ includes(contentType, <<"a","t","o","m">>)
AnyResponseHits(outcome) == outcome.kind = "response"
ProbeHit(outcome) == outcome.kind = "response" /\ outcome.ok /\ IsFeedContentType(outcome.contentType)
ProbedFeed(url, outcome) ==
  FeedInfo(url, Undefined, IF includes(outcome.contentType, <<"a","t","o","m">>) THEN "atom" ELSE "rss")
\* for (const result of results) if (result.status === 'fulfilled' && result.value) feeds.push
RECURSIVE HitsLastFirst(_, _, _)
HitsLastFirst(urls, results, k) ==
  IF k > Len(results) THEN <<>>
  ELSE HitsLastFirst(urls, results, k + 1)
       \o (IF ProbeHit(results[k]) THEN <<ProbedFeed(urls[k], results[k])>> ELSE <<>>)
RECURSIVE Hits(_, _, _)
Hits(urls, results, k) ==
  IF k > Len(results) THEN <<>>
  ELSE (IF ProbeHit(results[k]) THEN <<ProbedFeed(urls[k], results[k])>> ELSE <<>>)
       \o Hits(urls, results, k + 1)
\* Promise.allSettled returned: the hits are kept; probing ends on a hit or after the last
\* batch. probing.found logs the number of hits of every batch that has settled.
BatchSettledCollecting(feeds) ==
  IF probing.i + batchSize < Len(COMMON_FEED_PATHS)
  THEN /\ probing' = [probing EXCEPT !.i = @ + batchSize, !.results = <<>>, !.found = Append(@, Len(feeds))]
       /\ local' = [local EXCEPT !.feeds = @ \o feeds]
       /\ pc' = "probe"
       /\ UNCHANGED response
  ELSE IF Len(local.feeds \o feeds) > 0
  THEN /\ local' = [local EXCEPT !.feeds = @ \o feeds]
       /\ probing' = [probing EXCEPT !.found = Append(@, Len(feeds))]
       /\ pc' = "parseRecommended"
       /\ UNCHANGED response
  ELSE /\ Respond(200, NoFeedsSuccess)
       /\ probing' = [probing EXCEPT !.found = Append(@, Len(feeds))]
       /\ UNCHANGED local
BatchSettled(feeds) ==
  IF Len(feeds) > 0
  THEN /\ local' = [local EXCEPT !.feeds = feeds]
       /\ probing' = [probing EXCEPT !.found = Append(@, Len(feeds))]
       /\ pc' = "parseRecommended"
       /\ UNCHANGED response
  ELSE IF probing.i + batchSize < Len(COMMON_FEED_PATHS)
  THEN /\ probing' = [probing EXCEPT !.i = @ + batchSize, !.results = <<>>, !.found = Append(@, Len(feeds))]
       /\ pc' = "probe"
       /\ UNCHANGED <<local, response>>
  ELSE /\ Respond(200, NoFeedsSuccess)
       /\ probing' = [probing EXCEPT !.found = Append(@, Len(feeds))]
       /\ UNCHANGED local
FinishBatch ==
  /\ pc = "batch"
  /\ \A k \in 1..Len(probing.results) : probing.results[k] # Pending
  /\ BatchSettled(Hits(ProbeUrls(probing.origin, Batch(probing.i)), probing.results, 1))
  /\ UNCHANGED <<apiKey, request, calls, validated, received, urlVars, htmlVars, fnVars>>

TitleIfMissing(feeds, title) == IF Truthy(feeds[1].title) THEN feeds ELSE WithTitle(feeds, title)
\* parseFeed for every candidate instead of the first
ParseEveryCandidate(feed) ==
  /\ pc = "parseRecommended"
  /\ calls' = calls \o [h \in 1..Len(local.feeds) |-> Call(local.feeds[h].url, "GET", "parseFeed", local.parseTimeout)]
  /\ local' = [local EXCEPT !.parsed = "null"]
  /\ Respond(200, DiscoverSuccess(local.inputType, local.homepageUrl, local.feeds, FirstFeedUrl(local.feeds), NothingParsed, Null))
  /\ UNCHANGED <<apiKey, request, validated, probing, received, urlVars, htmlVars, fnVars>>
\* parseFeed(feeds[0].url) answered on the homepage path
ParseRecommended(feed) ==
  /\ pc = "parseRecommended"
  /\ Issue(local.feeds[1].url, "GET", "parseFeed", local.parseTimeout)
  /\ IF feed.ok
     THEN /\ local' = [local EXCEPT !.parsed = "parsed",
                                    !.metadata = FeedMetadata(feed, local.feeds[1].url),
                                    !.recentPosts = RecentPosts(feed),
                                    !.contentAnalysis = ContentAnalysis(feed),
                                    !.feeds = TitleIfMissing(@, FeedMetadata(feed, local.feeds[1].url).title)]
          /\ Respond(200, DiscoverSuccess(local.inputType, local.homepageUrl,
                                          TitleIfMissing(local.feeds, FeedMetadata(feed, local.feeds[1].url).title),
                                          FirstFeedUrl(local.feeds), Parsed(feed, local.feeds[1].url), Null))
     ELSE /\ local' = [local EXCEPT !.parsed = "null"]
          /\ Respond(200, DiscoverSuccess(local.inputType, local.homepageUrl, local.feeds, FirstFeedUrl(local.feeds), NothingParsed, Null))
  /\ UNCHANGED <<apiKey, request, validated, probing, received, urlVars, htmlVars, fnVars>>

\* /fetch and /parse validate body.url as it was sent
UrlAccepted(next) ==
  /\ validated' = validated \cup {request.body.url}
  /\ pc' = next
  /\ UNCHANGED <<response, calls, local, probing>>
FetchValidated(urlValidation) ==
  IF ~urlValidation.valid
  THEN Respond(200, ValidationError(urlValidation)) /\ UNCHANGED <<calls, validated, local, probing>>
  ELSE UrlAccepted("fetchUpstream")
\* /fetch from its entry to the first await
FetchGates ==
  /\ pc = "received" /\ request.endpoint = "fetch"
  /\ IF CommonGates(request, apiKey) # NoResponse THEN Rejected(CommonGates(request, apiKey))
     ELSE FetchValidated(validateUrl(request.body.url))
  /\ UNCHANGED <<apiKey, request, received, urlVars, htmlVars, fnVars>>

FetchOutcomes ==
  Thrown \cup {StalledBody} \cup {Answer(200, 512, 512, FALSE, "xml")}
         \cup {Answer(st, cl, bl, TRUE, "xml") :
                 st \in {200, 304, 404}, cl \in {NoHeader, 512, MAX_RESPONSE_SIZE + 1}, bl \in {512, MAX_RESPONSE_SIZE + 1}}
TooLarge(contentLength, max) == contentLength # NoHeader /\ contentLength > max
\* lib/config.ts
HEADERS_TO_EXTRACT == <<<<"c","o","n","t","e","n","t","-","t","y","p","e">>, <<"e","t","a","g">>, <<"l","a","s","t","-","m","o","d","i","f","i","e","d">>, <<"c","a","c","h","e","-","c","o","n","t","r","o","l">>, <<"c","o","n","t","e","n","t","-","l","e","n","g","t","h">>>>
ALLOWED_FORWARD_HEADERS == <<<<"i","f","-","n","o","n","e","-","m","a","t","c","h">>, <<"i","f","-","m","o","d","i","f","i","e","d","-","s","i","n","c","e">>>>
\* an object of headers is the sequence of its entries, in insertion order
Header(name, value) == [name |-> name, value |-> value]
Includes(array, x) == \E i \in 1..Len(array) : array[i] = x
HasHeader(headers, name) == \E i \in 1..Len(headers) : headers[i].name = name
\* Headers.get, Undefined for null
get(headers, name) ==
  IF HasHeader(headers, name)
  THEN headers[CHOOSE i \in 1..Len(headers) :
                 headers[i].name = name /\ \A j \in 1..(i - 1) : headers[j].name # name].value
  ELSE Undefined
\* the headers the upstream server sends with an answer
UpstreamHeaders(answer) ==
  <<Header(<<"c","o","n","t","e","n","t","-","t","y","p","e">>, <<"a","p","p","l","i","c","a","t","i","o","n","/","r","s","s","+","x","m","l">>), Header(<<"s","e","t","-","c","o","o","k","i","e">>, <<"s","i","d","=","1">>),
    Header(<<"e","t","a","g">>, <<"W","/","1">>), Header(<<"x","-","p","o","w","e","r","e","d","-","b","y">>, <<"E","x","p","r","e","s","s">>)>>
  \o (IF answer.contentLength # NoHeader
      THEN <<Header(<<"c","o","n","t","e","n","t","-","l","e","n","g","t","h">>, FormatNumber(answer.contentLength, 10))>> ELSE <<>>)
extractHeaders(responseHeaders, headersToExtract) ==
  SelectSeq([k \in 1..Len(headersToExtract) |->
               Header(headersToExtract[k], get(responseHeaders, headersToExtract[k]))],
            LAMBDA h : h.value # Undefined)
\* body.headers, not given when the field is absent
ClientHeaders(body) ==
  [given |-> "headers" \in DOMAIN body, entries |-> IF "headers" \in DOMAIN body THEN body.headers ELSE <<>>]
ForwardAll(clientHeaders) == IF ~clientHeaders.given THEN <<>> ELSE clientHeaders.entries
filterForwardHeaders(clientHeaders) ==
  IF ~clientHeaders.given THEN <<>>
  ELSE SelectSeq(clientHeaders.entries, LAMBDA h : Includes(ALLOWED_FORWARD_HEADERS, toLowerCase(h.name)))
\* { ...object, [name]: value } for one entry, and for the entries of extra from the k-th
Assign(object, h) ==
  IF HasHeader(object, h.name)
  THEN [i \in 1..Len(object) |-> IF object[i].name = h.name THEN h ELSE object[i]]
  ELSE Append(object, h)
RECURSIVE Spread(_, _, _)
Spread(object, extra, k) == IF k > Len(extra) THEN object ELSE Spread(Assign(object, extra[k]), extra, k + 1)
OwnHeaders ==
  <<Header(<<"U","s","e","r","-","A","g","e","n","t">>, <<"B","l","o","g","s","A","r","e","B","a","c","k","/","1",".","0"," ","(","C","O","R","S"," ","P","r","o","x","y",")">>),
    Header(<<"A","c","c","e","p","t">>, <<"a","p","p","l","i","c","a","t","i","o","n","/","r","s","s","+","x","m","l",","," ","a","p","p","l","i","c","a","t","i","o","n","/","a","t","o","m","+","x","m","l",","," ","a","p","p","l","i","c","a","t","i","o","n","/","x","m","l",","," ","t","e","x","t","/","x","m","l",","," ","*","/","*">>)>>
RequestHeaders(forwardHeaders) == Spread(OwnHeaders, forwardHeaders, 1)
FetchCall(url, timeout, headers) ==
  [url |-> url, method |-> "GET", for |-> "fetch", timeout |-> timeout, headers |-> headers]

FetchSuccess(status, headers, responseBody) ==
  [success |-> TRUE, status |-> status, headers |-> headers, body |-> responseBody]
FetchError(code, message, status) ==
  [success |-> FALSE, error |-> [code |-> code, message |-> message, status |-> status]]
FetchAnswered(answer) ==
  IF answer.status = 304
  THEN FetchSuccess(304, extractHeaders(UpstreamHeaders(answer), HEADERS_TO_EXTRACT), Null)
  ELSE IF TooLarge(answer.contentLength, MAX_RESPONSE_SIZE)
       THEN FetchError(CONTENT_TOO_LARGE, "Response exceeds maximum size", answer.status)
  ELSE IF ~answer.reads THEN FetchError(FETCH_FAILED, "Failed to read response body", answer.status)
  ELSE IF answer.byteLength > MAX_RESPONSE_SIZE
       THEN FetchError(CONTENT_TOO_LARGE, "Response exceeds maximum size", answer.status)
  ELSE FetchSuccess(answer.status, extractHeaders(UpstreamHeaders(answer), HEADERS_TO_EXTRACT), answer.content)
\* the fetch of body.url answered
FetchUpstream(outcome) ==
  /\ pc = "fetchUpstream"
  /\ calls' = Append(calls, FetchCall(request.body.url,
                                      TimeoutOf(request.body.timeout, DEFAULT_FETCH_TIMEOUT, MAX_TIMEOUT),
                                      RequestHeaders(filterForwardHeaders(ClientHeaders(request.body)))))
  /\ IF outcome = StalledBody THEN pc' = "readBody" /\ UNCHANGED response
     ELSE IF outcome.kind # "response"
     THEN Respond(200, FetchError(ThrownError(outcome).error.code, ThrownError(outcome).error.message, Null))
     ELSE Respond(200, FetchAnswered(outcome))
  /\ Answered("fetch", outcome, outcome.status # 304 /\ ~TooLarge(outcome.contentLength, MAX_RESPONSE_SIZE))
  /\ UNCHANGED <<apiKey, request, validated, local, probing, urlVars, htmlVars, fnVars>>

\* body.format || 'both'
FormatOf(body) == IF body.format = Null THEN "both" ELSE body.format
\* an invalid format answered like the failures after the gates
FormatAnswered200(urlValidation) ==
  IF ~urlValidation.valid
  THEN Respond(200, ValidationError(urlValidation)) /\ UNCHANGED <<calls, validated, local, probing>>
  ELSE IF FormatOf(request.body) \notin {"html", "text", "both"}
  THEN Respond(200, ErrorBody(INVALID_URL, "Invalid format: must be \"html\", \"text\", or \"both\""))
       /\ UNCHANGED <<calls, validated, local, probing>>
  ELSE UrlAccepted("fetchPage")
ParseValidated(urlValidation) ==
  IF ~urlValidation.valid
  THEN Respond(200, ValidationError(urlValidation)) /\ UNCHANGED <<calls, validated, local, probing>>
  ELSE IF FormatOf(request.body) \notin {"html", "text", "both"}
  THEN Respond(400, ErrorBody(INVALID_URL, "Invalid format: must be \"html\", \"text\", or \"both\""))
       /\ UNCHANGED <<calls, validated, local, probing>>
  ELSE UrlAccepted("fetchPage")
\* /parse from its entry to the first await
ParseGates ==
  /\ pc = "received" /\ request.endpoint = "parse"
  /\ IF CommonGates(request, apiKey) # NoResponse THEN Rejected(CommonGates(request, apiKey))
     ELSE ParseValidated(validateUrl(request.body.url))
  /\ UNCHANGED <<apiKey, request, received, urlVars, htmlVars, fnVars>>

\* what Readability makes of the page: it throws, finds no article, or returns one
Article(content) == [readability |-> "article", content |-> content]
Articles ==
  {[readability |-> "throws"], [readability |-> "none"],
   Article(ElementDocument([tag |-> "a", name |-> "href", value |-> <<"/","a","b","o","u","t">>])),
   Article(ElementDocument([tag |-> "img", name |-> "src", value |-> <<"d","a","t","a",":","i","m","a","g","e","/","p","n","g",";","b","a","s","e","6","4",",","A","A">>]))}
ParseOutcomes ==
  Thrown \cup {StalledBody} \cup {Answer(404, NoHeader, 512, TRUE, [readability |-> "none"]),
               Answer(200, MAX_HTML_SIZE + 1, 512, TRUE, [readability |-> "none"]),
               Answer(200, NoHeader, MAX_HTML_SIZE + 1, TRUE, [readability |-> "none"])}
         \cup {Answer(200, 512, 512, TRUE, a) : a \in Articles}
ParseSuccess(format, content, base) ==
  [success |-> TRUE,
   htmlContent |-> IF format \in {"html", "both"} THEN sanitizeHtml(content, base) ELSE Null,
   textContent |-> IF format \in {"text", "both"} THEN "text" ELSE Null]
ParseAnswered(answer) ==
  IF ~Ok(answer) THEN ErrorBody(FETCH_FAILED, "HTTP status")
  ELSE IF TooLarge(answer.contentLength, MAX_HTML_SIZE)
       THEN ErrorBody(CONTENT_TOO_LARGE, "HTML exceeds maximum size")
  ELSE IF answer.byteLength > MAX_HTML_SIZE THEN ErrorBody(CONTENT_TOO_LARGE, "HTML exceeds maximum size")
  ELSE IF answer.content.readability = "throws"
       THEN ErrorBody(PARSE_FAILED, "Readability failed to parse content")
  ELSE IF answer.content.readability = "none"
       THEN ErrorBody(PARSE_FAILED, "Could not extract article content")
  ELSE ParseSuccess(FormatOf(request.body), answer.content.content, request.body.url)
\* the fetch of body.url answered; the page goes through Readability and sanitizeHtml
ParseFetch(outcome) ==
  /\ pc = "fetchPage"
  /\ Issue(request.body.url, "GET", "page", TimeoutOf(request.body.timeout, DEFAULT_PARSE_TIMEOUT, MAX_TIMEOUT))
  /\ IF outcome = StalledBody THEN pc' = "readBody" /\ UNCHANGED response
     ELSE IF outcome.kind # "response" THEN Respond(200, ThrownError(outcome))
     ELSE Respond(200, ParseAnswered(outcome))
  /\ Answered("page", outcome, Ok(outcome) /\ ~TooLarge(outcome.contentLength, MAX_HTML_SIZE))
  /\ UNCHANGED <<apiKey, request, validated, local, probing, urlVars, htmlVars, fnVars>>

\* the requests: endpoint, method, x-api-key header and body
RequestUrls ==
  {<<"e","x","a","m","p","l","e",".","c","o","m">>, <<"h","t","t","p","s",":","/","/","e","x","a","m","p","l","e",".","c","o","m","/","b","l","o","g","/","2","0","2","4","/","0","5","/","h","e","l","l","o">>, <<"h","t","t","p","s",":","/","/","e","x","a","m","p","l","e",".","c","o","m","/","f","e","e","d",".","x","m","l">>,
   <<" ","h","t","t","p","s",":","/","/","e","x","a","m","p","l","e",".","c","o","m","/","p","o","s","t","s","/","o","n","e"," ">>, <<"h","t","t","p",":","/","/","l","o","c","a","l","h","o","s","t","/","f","e","e","d">>, <<"h","t","t","p",":","/","/","1","6","9",".","2","5","4",".","1","6","9",".","2","5","4","/">>,
   <<"f","t","p",":","/","/","e","x","a","m","p","l","e",".","c","o","m","/">>, <<"@","a","l","i","c","e">>}
Unparsable == [parses |-> FALSE]
Body(url, format, timeout) == [parses |-> TRUE, url |-> url, format |-> format, timeout |-> timeout]
\* body.timeout: absent, a short one, and one above MAX_DISCOVER_TIMEOUT
RequestTimeouts == {100, 60000}
Bodies(endpoint) ==
  {Unparsable, Body(Undefined, Null, 0)}
    \cup {Body(u, f, 0) : u \in RequestUrls, f \in IF endpoint = "parse" THEN {Null, "text", "pdf"} ELSE {Null}}
\* the bodies sent with every method and key: the gates before the URL is looked at
GateBodies == {Unparsable, Body(Undefined, Null, 0), Body(<<"h","t","t","p",":","/","/","l","o","c","a","l","h","o","s","t","/","f","e","e","d">>, Null, 0)}
\* body.headers of /fetch: conditional headers in two letter cases, and headers the
\* caller may not set
ClientHeaderLists ==
  {<<>>,
   <<Header(<<"I","f","-","N","o","n","e","-","M","a","t","c","h">>, <<"W","/","0">>), Header(<<"U","s","e","r","-","A","g","e","n","t">>, <<"c","u","r","l","/","8">>), Header(<<"C","o","o","k","i","e">>, <<"a","=","b">>)>>,
   <<Header(<<"a","c","c","e","p","t">>, <<"t","e","x","t","/","h","t","m","l">>), Header(<<"I","F","-","M","O","D","I","F","I","E","D","-","S","I","N","C","E">>, <<"y","e","s","t","e","r","d","a","y">>), Header(<<"H","o","s","t">>, <<"l","o","c","a","l","h","o","s","t">>),
     Header(<<"i","f","-","n","o","n","e","-","m","a","t","c","h">>, <<"W","/","2">>)>>}
HeaderedRequests ==
  {[endpoint |-> "fetch", method |-> "POST", key |-> <<"k","1">>,
    body |-> [parses |-> TRUE, url |-> <<"h","t","t","p","s",":","/","/","e","x","a","m","p","l","e",".","c","o","m","/","f","e","e","d",".","x","m","l">>, format |-> Null, timeout |-> 0,
              headers |-> h]] : h \in ClientHeaderLists}
TimedRequests ==
  {[endpoint |-> "discover", method |-> "POST", key |-> <<"k","2">>, body |-> Body(<<"h","t","t","p","s",":","/","/","e","x","a","m","p","l","e",".","c","o","m","/","f","e","e","d",".","x","m","l">>, Null, t)] :
     t \in RequestTimeouts}
Requests ==
  UNION {{[endpoint |-> e, method |-> m, key |-> k, body |-> b] :
            m \in {"OPTIONS", "GET", "POST"}, k \in {Undefined, <<"k","1">>, <<"k","2">>}, b \in GateBodies} :
         e \in {"discover", "fetch", "parse"}}
  \cup UNION {{[endpoint |-> e, method |-> "POST", key |-> <<"k","1">>, body |-> b] : b \in Bodies(e)} :
              e \in {"discover", "fetch", "parse"}}
  \cup TimedRequests \cup HeaderedRequests

Init ==
  /\ apiKey \in {Undefined, <<"k","1">>}
  /\ request = NoRequest /\ pc = "idle" /\ response = NoResponse
  /\ calls = <<>> /\ validated = {} /\ local = NoLocals /\ probing = NotProbing /\ received = <<>>
  /\ ValidatorIdle
  /\ SanitizerIdle
  /\ FunctionsIdle

Receive(r) ==
  /\ pc = "idle"
  /\ request' = r
  /\ pc' = "received"
  /\ UNCHANGED <<apiKey, response, calls, validated, local, probing, received, urlVars, htmlVars, fnVars>>

\* the steps of the handlers: each runs when what it awaits has settled
Serve ==
  \/ DiscoverGates
  \/ \E outcome \in FeedValidations : ValidateFeed(outcome)
  \/ \E feed \in ParsedFeeds : ParseDirect(feed)
  \/ \E outcome \in {"ok", "notOk", "error", "stalled"} : FetchImages(outcome)
  \/ \E outcome \in HomepageOutcomes : FetchHomepage(outcome)
  \/ StartBatch
  \/ \E k \in 1..batchSize, outcome \in ProbeOutcomes : SettleProbe(k, outcome)
  \/ FinishBatch
  \/ \E feed \in ParsedFeeds : ParseRecommended(feed)
  \/ FetchGates
  \/ \E outcome \in FetchOutcomes : FetchUpstream(outcome)
  \/ ParseGates
  \/ \E outcome \in ParseOutcomes : ParseFetch(outcome)

Next ==
  \/ \E r \in Requests : Receive(r)
  \/ Serve

Spec == Init /\ [][Next]_vars

(***************************************************************************)
(* One request per endpoint under fair scheduling: a handler step that can  *)
(* run does run (the event loop resumes it when the awaited fetch settles,  *)
(* and the abort timer settles a fetch that has not answered its headers).  *)
(***************************************************************************)
FairRequests ==
  {[endpoint |-> e, method |-> "POST", key |-> Undefined, body |-> Body(<<"h","t","t","p","s",":","/","/","e","x","a","m","p","l","e",".","c","o","m","/","f","e","e","d",".","x","m","l">>, Null, 0)] :
     e \in {"discover", "fetch", "parse"}}
FairInit == Init /\ apiKey = Undefined
FairNext ==
  \/ \E r \in FairRequests : Receive(r)
  \/ Serve
\* a handler step can run: a request is being handled and what it awaits settles
\* (the wait for a body whose headers have arrived never settles when the body stalls)
Runnable == pc \notin {"idle", "done", "readBody"}
Positions ==
  {"idle", "received", "validateFeed", "parseDirect", "fetchImages", "fetchHomepage", "probe", "batch",
   "parseRecommended", "fetchUpstream", "fetchPage", "readBody", "done"}
\* a pending probe settles: with a response, a network error, or the abort at its timeout
Settle == \E k \in 1..batchSize, outcome \in ProbeOutcomes : SettleProbe(k, outcome)
AllSettled == \A k \in 1..Len(probing.results) : probing.results[k] # Pending
\* the event loop resumes the handler: what it awaited has settled (in a batch, every
\* probe), and it leaves the position where it waited.  Every step of Serve other than
\* Settle is such a step, and one of them is enabled wherever Resume is.
Resume == Runnable /\ (pc = "batch" => AllSettled) /\ pc' \in Positions \ {pc}
FairSpec == FairInit /\ [][FairNext]_vars /\ WF_vars(Settle) /\ WF_pc(Resume)

\* C1: every URL an outbound call of the three handlers targets was passed through
\* validateUrl and found valid before the call was issued.  Stated in its weakest
\* form: every target is a URL that validateUrl accepts.
C1_CallsValidated == \A i \in 1..Len(calls) : validateUrl(calls[i].url).valid

\* the request fails one of the gates: preflight, method, API key, body, url field,
\* or a URL that validateUrl rejects (on /discover the normalized input)
GatedUrl(req) == IF req.endpoint = "discover" THEN normalizeUrl(trim(req.body.url)) ELSE req.body.url
FailsGate(req, API_KEY) ==
  \/ req.method # "POST"
  \/ API_KEY # Undefined /\ req.key # API_KEY
  \/ ~req.body.parses
  \/ req.body.url = Undefined
  \/ ~validateUrl(GatedUrl(req)).valid

\* C6: a request rejected by a gate causes no outbound call: in every state of serving
\* it the call log is empty, and it ends with a response.
C6_RejectedNoCalls ==
  (request # NoRequest /\ FailsGate(request, apiKey)) =>
    /\ calls = <<>>
    /\ pc \in {"received", "done"}
    /\ pc = "done" => response # NoResponse
C6_Witness ==
  /\ pc = "done"
  /\ request.endpoint = "discover" /\ request.method = "POST" /\ request.body.parses
  /\ request.body.url = <<"h","t","t","p",":","/","/","1","6","9",".","2","5","4",".","1","6","9",".","2","5","4","/">>
  /\ response.status = 200
  /\ response.body.error.code = BLOCKED_URL
  /\ calls = <<>>


\* the probe of COMMON_FEED_PATHS[j] was requested
ProbeRequested(j) ==
  \E i \in 1..Len(calls) :
    calls[i].for = "probe" /\ calls[i].url = probing.origin \o COMMON_FEED_PATHS[j]
RssHit == Probe("response", TRUE, <<"a","p","p","l","i","c","a","t","i","o","n","/","r","s","s","+","x","m","l">>)
AtomHit == Probe("response", TRUE, <<"a","p","p","l","i","c","a","t","i","o","n","/","a","t","o","m","+","x","m","l">>)
\* the positions of the current batch that answered 2xx with a feed content type
HitPositions ==
  SelectSeq([k \in 1..Len(probing.results) |-> k], LAMBDA k : probing.results[k] \in {RssHit, AtomHit})
\* the hits of batch b, in path order, as <<url, type>>
BatchHits(b) ==
  [h \in 1..Len(HitPositions) |->
     <<probing.origin \o COMMON_FEED_PATHS[(b - 1) * batchSize + HitPositions[h]],
       IF probing.results[HitPositions[h]] = AtomHit THEN "atom" ELSE "rss">>]
UrlAndType(feeds) == [h \in 1..Len(feeds) |-> <<feeds[h].url, feeds[h].type>>]

\* C12: once a batch of probeFeedPaths has produced at least one hit, no path of a later
\* batch is requested, and the candidates returned are the hits of that batch in
\* probe-path order.
C12_StopAfterHit ==
  \A b \in 1..Len(probing.found) :
    probing.found[b] > 0 =>
      /\ \A j \in 1..Len(COMMON_FEED_PATHS) : j > b * batchSize => ~ProbeRequested(j)
      /\ UrlAndType(local.feeds) = BatchHits(b)
      /\ pc = "done" => UrlAndType(response.body.feeds) = BatchHits(b)
C12_Witness ==
  /\ pc = "done"
  /\ probing.found = <<0, 2>>
  /\ probing.results = <<RssHit, Probe("timeout", FALSE, <<>>), AtomHit>>
  /\ UrlAndType(response.body.feeds) =
       <<<<<<"h","t","t","p","s",":","/","/","e","x","a","m","p","l","e",".","c","o","m","/","f","e","e","d",".","x","m","l">>, "rss">>, <<<<"h","t","t","p","s",":","/","/","e","x","a","m","p","l","e",".","c","o","m","/","i","n","d","e","x",".","x","m","l">>, "atom">>>>
  /\ ~ProbeRequested(7)

\* the first batch has settled and the probe of /feed answered 200 application/rss+xml
FeedPathAnswersRss == Len(probing.found) >= 1 /\ probing.i = 0 /\ probing.results[1] = RssHit
FeedCandidate == <<probing.origin \o <<"/","f","e","e","d">>, "rss">>

\* C13: on a homepage without declared feed links whose /feed answers 200 with
\* application/rss+xml, discovery yields the single candidate /feed and requests no
\* path after /feed in COMMON_FEED_PATHS.
C13_SingleCandidate ==
  FeedPathAnswersRss =>
    /\ UrlAndType(local.feeds) = <<FeedCandidate>>
    /\ \A j \in 2..Len(COMMON_FEED_PATHS) : ~ProbeRequested(j)

\* C13 as the code has it: /rss and /atom.xml are requested together with /feed; the
\* candidates are the hits of this first batch with /feed first (the only one when the
\* other two miss), /feed is the recommended feed, and no path after the first batch
\* is requested.
C13_FirstBatchOnly ==
  FeedPathAnswersRss =>
    /\ UrlAndType(local.feeds)[1] = FeedCandidate
    /\ Len(local.feeds) = Len(HitPositions)
    /\ \A h \in 2..Len(local.feeds) :
         \E j \in 2..batchSize : local.feeds[h].url = probing.origin \o COMMON_FEED_PATHS[j]
    /\ \A j \in 1..batchSize : ProbeRequested(j)
    /\ \A j \in (batchSize + 1)..Len(COMMON_FEED_PATHS) : ~ProbeRequested(j)
    /\ pc = "done" => response.body.recommended_feed = probing.origin \o <<"/","f","e","e","d">>
C13_Witness ==
  /\ pc = "done"
  /\ FeedPathAnswersRss
  /\ probing.results = <<RssHit, Probe("response", TRUE, <<"t","e","x","t","/","h","t","m","l">>), AtomHit>>
  /\ Len(response.body.feeds) = 2
  /\ response.body.recommended_feed = <<"h","t","t","p","s",":","/","/","e","x","a","m","p","l","e",".","c","o","m","/","f","e","e","d">>

\* a settled probe that is not a 2xx answer with a feed content type
FailedProbe(outcome) == outcome \notin {Pending, RssHit, AtomHit}
NumBatches == (Len(COMMON_FEED_PATHS) + batchSize - 1) \div batchSize
NoHitSoFar == probing.found # <<>> /\ \A b \in 1..Len(probing.found) : probing.found[b] = 0

\* C14: a probe that errors, times out, answers non-2xx or a non-feed content type, or
\* is skipped by validateUrl contributes no candidate and nothing else: the request
\* still ends in a success response, the hits of its batch are kept, a batch without
\* hits is followed by the next batch, and when every batch fails the feeds are empty.
C14_FailedProbes ==
  /\ \A k \in 1..Len(probing.results) :
       FailedProbe(probing.results[k]) =>
         \A h \in 1..Len(local.feeds) :
           local.feeds[h].url # probing.origin \o COMMON_FEED_PATHS[probing.i + k]
  /\ (probing.found # <<>> /\ Len(probing.found) = probing.i \div batchSize + 1) =>
       probing.found[Len(probing.found)] = Len(HitPositions)
  /\ (probing.found # <<>> /\ pc = "done") => (response.status = 200 /\ response.body.success)
  /\ (NoHitSoFar /\ Len(probing.found) < NumBatches) =>
       /\ pc \in {"probe", "batch"}
       /\ probing.i = Len(probing.found) * batchSize
       /\ pc = "batch" => ProbeRequested(probing.i + 1)
  /\ (NoHitSoFar /\ Len(probing.found) = NumBatches) =>
       (pc = "done" /\ response.body.success /\ response.body.feeds = <<>>)
C14_Witness ==
  /\ pc = "done"
  /\ probing.found = <<0, 0, 0, 0>>
  /\ probing.results = <<Probe("timeout", FALSE, <<>>)>>
  /\ ProbeRequested(Len(COMMON_FEED_PATHS))
  /\ response.body.success /\ response.body.feeds = <<>>

\* a link element that declares a feed: it has an href and a type naming rss or atom
DeclaresFeed(link) ==
  /\ link.href # Undefined /\ link.href # <<>>
  /\ link.type # Undefined
  /\ includes(toLowerCase(link.type), <<"r","s","s">>) \/ includes(toLowerCase(link.type), <<"a","t","o","m">>)
DeclaredLinks == SelectSeq(local.html, DeclaresFeed)
DeclaredUrls == [h \in 1..Len(DeclaredLinks) |-> resolveUrl(DeclaredLinks[h].href, local.homepageUrl)]
ProbeIssued == \E i \in 1..Len(calls) : calls[i].for = "probe"
HomepageWasRead == pc \in {"probe", "batch", "parseRecommended"} \/ (pc = "done" /\ response.body.success)

\* C15: /discover probes the common feed paths only when the scan of the fetched
\* homepage found no feed: when the page declares at least one feed no probe request
\* is issued and the returned feeds are the declared ones in document order.
C15_ProbeOnlyWithoutDeclared ==
  (request # NoRequest /\ request.endpoint = "discover" /\ local # NoLocals) =>
    /\ ProbeIssued => (HomepageWasRead /\ DeclaredLinks = <<>>)
    /\ (HomepageWasRead /\ DeclaredLinks # <<>>) =>
         /\ ~ProbeIssued
         /\ [h \in 1..Len(local.feeds) |-> local.feeds[h].url] = DeclaredUrls
         /\ pc = "done" => [h \in 1..Len(response.body.feeds) |-> response.body.feeds[h].url] = DeclaredUrls
C15_Witness ==
  /\ pc = "done"
  /\ local # NoLocals
  /\ Len(local.html) = 3
  /\ ~ProbeIssued
  /\ UrlAndType(response.body.feeds) =
       <<<<<<"h","t","t","p","s",":","/","/","f","e","e","d","s",".","e","x","a","m","p","l","e",".","n","e","t","/","a","t","o","m">>, "atom">>, <<<<"h","t","t","p","s",":","/","/","e","x","a","m","p","l","e",".","c","o","m","/","r","s","s">>, "rss">>>>

\* the normalized input is classified as a feed URL
FeedInput == local # NoLocals /\ detectInputType(ParseUrl(local.normalizedUrlString)) = "feed"
CallsFor(purpose) == SelectSeq(calls, LAMBDA c : c.for = purpose)
\* what holds once the validation of the input, parsed as url, has failed or succeeded
FellBack(url) ==
  detectInputType(url) = "feed" =>
    /\ local.inputType = "homepage"
    /\ local.homepageUrl = url.origin
    /\ pc \in {"fetchHomepage", "readBody", "probe", "batch", "parseRecommended", "done"}
    /\ \A i \in 1..Len(CallsFor("homepage")) : CallsFor("homepage")[i].url = local.homepageUrl
    /\ pc # "fetchHomepage" => Len(CallsFor("homepage")) = 1
    /\ (pc = "done" /\ response.body.success) =>
         /\ response.body.input_type = "homepage"
         /\ response.body.normalized_url = url.origin
AnsweredDirectly(url) ==
  detectInputType(url) = "feed" =>
    /\ pc \in {"parseDirect", "fetchImages", "readBody", "done"}
    /\ CallsFor("homepage") = <<>> /\ CallsFor("probe") = <<>>
    /\ pc = "done" =>
         /\ response.status = 200 /\ response.body.success
         /\ response.body.input_type = "feed"
         /\ response.body.recommended_feed = local.normalizedUrlString

\* C18: a feed-classified input whose validation fails (fetch error, non-2xx, no feed
\* marker) continues on the homepage path at the origin of the input URL and is
\* reported as input_type homepage; one whose validation succeeds is answered on the
\* feed path with recommended_feed = the normalized input, and the homepage is never
\* fetched for feed discovery.
C18_FeedFallback ==
  local # NoLocals =>
    /\ local.isValid \in {"error", "notOk", "noMarker"} => FellBack(ParseUrl(local.normalizedUrlString))
    /\ local.isValid = "feed" => AnsweredDirectly(ParseUrl(local.normalizedUrlString))
C18_Witness ==
  /\ pc = "done"
  /\ FeedInput
  /\ local.isValid = "noMarker"
  /\ local.normalizedUrlString # local.homepageUrl
  /\ response.body.success
  /\ response.body.input_type = "homepage"
  /\ Len(CallsFor("homepage")) = 1

\* the homepage was fetched and read: probeFeedPaths got its origin
HomepageFetched == "origin" \in DOMAIN probing

\* C19: when the homepage was fetched and neither its link elements nor any probe gives
\* a feed, the response is 200 with success true, feeds [], recommended_feed null and
\* the informational message; after a fetched homepage no response has success false.
C19_NoFeedIsSuccess ==
  /\ (HomepageFetched /\ DeclaredLinks = <<>> /\ NoHitSoFar /\ Len(probing.found) = NumBatches) =>
       /\ pc = "done"
       /\ response.status = 200
       /\ response.body.success
       /\ response.body.feeds = <<>>
       /\ response.body.recommended_feed = Null
       /\ response.body.message = "No RSS or Atom feeds found for this URL"
  /\ (HomepageFetched /\ pc = "done") => (response.status = 200 /\ response.body.success)
C19_Witness ==
  /\ pc = "done"
  /\ HomepageFetched
  /\ Len(local.html) = 2 /\ DeclaredLinks = <<>>
  /\ Len(CallsFor("probe")) = Len(COMMON_FEED_PATHS)
  /\ response.body.feeds = <<>>
  /\ response.body.message = "No RSS or Atom feeds found for this URL"

ParseCalls == CallsFor("parseFeed")

\* C20: on the homepage/article path at most one parseFeed attempt is made, for the
\* first candidate; on the feed path exactly one, for the input URL; when the attempt
\* fails the response is still success true with the discovered feeds, and metadata,
\* content_analysis and recent_posts are null.
C20_OneParseAttempt ==
  (request # NoRequest /\ request.endpoint = "discover" /\ local # NoLocals) =>
    /\ Len(ParseCalls) <= 1
    /\ local.isValid = "feed" =>
         /\ Len(ParseCalls) = (IF pc = "parseDirect" THEN 0 ELSE 1)
         /\ \A i \in 1..Len(ParseCalls) : ParseCalls[i].url = local.normalizedUrlString
    /\ local.isValid # "feed" =>
         /\ \A i \in 1..Len(ParseCalls) : ParseCalls[i].url = local.feeds[1].url
         /\ (pc = "done" /\ response.body.success) =>
              Len(ParseCalls) = (IF local.feeds = <<>> THEN 0 ELSE 1)
    /\ local.parsed = "null" =>
         /\ pc = "done"
         /\ response.status = 200
         /\ response.body.success
         /\ response.body.feeds = local.feeds /\ local.feeds # <<>>
         /\ response.body.metadata = NullObject
         /\ response.body.content_analysis = NullObject
         /\ response.body.recent_posts = NullPosts
C20_Witness ==
  /\ pc = "done"
  /\ local # NoLocals
  /\ local.inputType = "article"
  /\ local.parsed = "null"
  /\ Len(response.body.feeds) = 2
  /\ ParseCalls = <<Call(<<"h","t","t","p","s",":","/","/","f","e","e","d","s",".","e","x","a","m","p","l","e",".","n","e","t","/","a","t","o","m">>, "GET", "parseFeed", 4000)>>
  /\ response.body.metadata = NullObject

RECURSIVE Sum(_)
Sum(numbers) == IF Len(numbers) = 0 THEN 0 ELSE Head(numbers) + Sum(Tail(numbers))
Timeouts(sequence) == [i \in 1..Len(sequence) |-> sequence[i].timeout]
\* the probe calls that open a batch: one timeout window per batch
BatchOpeners ==
  SelectSeq(CallsFor("probe"),
            LAMBDA c : \E b \in 0..(NumBatches - 1) : c.url = probing.origin \o COMMON_FEED_PATHS[b * batchSize + 1])
RequestedTotal ==
  IF request.body.timeout # 0 /\ request.body.timeout < MAX_DISCOVER_TIMEOUT THEN request.body.timeout
  ELSE IF request.body.timeout # 0 THEN MAX_DISCOVER_TIMEOUT
  ELSE DEFAULT_DISCOVER_TIMEOUT

\* C17: with T = min(requested or default, MAX_DISCOVER_TIMEOUT), the homepage fetch may
\* take at most 30% of T, probing as a whole (the batch timeouts summed over the batches
\* run) at most 40% of T, feed parsing at most 20% of T, and the timeouts of all
\* sub-steps run in one request sum to at most T.
C17_BudgetSplit ==
  (request # NoRequest /\ request.endpoint = "discover" /\ local # NoLocals) =>
    /\ Sum(Timeouts(CallsFor("homepage"))) * 10 <= 3 * RequestedTotal
    /\ Sum(Timeouts(BatchOpeners)) * 10 <= 4 * RequestedTotal
    /\ Sum(Timeouts(CallsFor("parseFeed"))) * 10 <= 2 * RequestedTotal
    /\ Sum(Timeouts(CallsFor("validateFeedUrl"))) + Sum(Timeouts(CallsFor("homepage")))
         + Sum(Timeouts(BatchOpeners)) + Sum(Timeouts(CallsFor("parseFeed")))
         + Sum(Timeouts(CallsFor("images"))) <= RequestedTotal

\* C16: every handler invocation eventually sends its response, even when a remote
\* server stalls before its headers or while its body is read.
C16_EventuallyResponds == (pc = "received") ~> (pc = "done")


\* the failures reported after authentication and parsing, and the shape of the request
SemanticCodes == {BLOCKED_URL, FETCH_FAILED, TIMEOUT, CONTENT_TOO_LARGE, PARSE_FAILED, DISCOVERY_FAILED}
ReportsFailure == response.status \in {200, 400, 405} /\ ~response.body.success
WellFormed(req, API_KEY) ==
  req.method = "POST" /\ validateAuth(req, API_KEY) /\ req.body.parses /\ Truthy(req.body.url)
InvalidFormat(req) == req.endpoint = "parse" /\ FormatOf(req.body) \notin {"html", "text", "both"}
UsernameRequest(req) == req.endpoint = "discover" /\ isUsernameInput(trim(req.body.url))
\* the answer to a well-formed request whose URL validateUrl rejects with urlValidation
RejectedUrlAnswer(urlValidation) ==
  ~urlValidation.valid =>
    /\ response.status = 200 /\ ~response.body.success
    /\ response.body.error.code = urlValidation.code
    /\ urlValidation.code \in {INVALID_URL, BLOCKED_URL}

Ceiling(for) == IF for = "fetch" THEN MAX_RESPONSE_SIZE ELSE MAX_HTML_SIZE
Usable(answer) == IF answer.for = "fetch" THEN answer.status # 304 ELSE answer.status >= 200 /\ answer.status <= 299
AboveCeiling(answer) ==
  TooLarge(answer.contentLength, Ceiling(answer.for)) \/ answer.byteLength > Ceiling(answer.for)

\* C22: on every endpoint the size ceiling is enforced twice: the body of an answer
\* whose content-length header exceeds the ceiling is never read, and an answer whose
\* header or byte length exceeds the ceiling is reported as CONTENT_TOO_LARGE, so no
\* success response is built from it.
C22_SizeCeiling ==
  /\ \A i \in 1..Len(received) :
       (Usable(received[i]) /\ TooLarge(received[i].contentLength, Ceiling(received[i].for)))
         => ~received[i].read
  /\ pc = "done" =>
       \A i \in 1..Len(received) :
         (Usable(received[i]) /\ AboveCeiling(received[i]))
           => ReportsFailure /\ response.body.error.code = CONTENT_TOO_LARGE

FetchAnsweredSuccess == pc = "done" /\ request.endpoint = "fetch" /\ response.status = 200 /\ response.body.success
\* the header h of an outbound request is one the proxy sets itself, with the proxy's value
OwnHeader(h) == \E i \in 1..Len(OwnHeaders) : OwnHeaders[i] = h
\* the header h is an entry of the caller's headers
CallerHeader(h) ==
  /\ "headers" \in DOMAIN request.body
  /\ \E i \in 1..Len(request.body.headers) : request.body.headers[i] = h
\* C23: on /fetch the headers of every success response have names of the list
\* content-type, etag, last-modified, cache-control, content-length only; every header
\* of the outbound request is one of the proxy's own with the proxy's value, or an entry
\* of the caller whose lower-cased name is if-none-match or if-modified-since; each of
\* the proxy's own headers is sent
C23_HeaderLists ==
  /\ FetchAnsweredSuccess =>
       \A i \in 1..Len(response.body.headers) :
         response.body.headers[i].name \in {<<"c","o","n","t","e","n","t","-","t","y","p","e">>, <<"e","t","a","g">>, <<"l","a","s","t","-","m","o","d","i","f","i","e","d">>, <<"c","a","c","h","e","-","c","o","n","t","r","o","l">>, <<"c","o","n","t","e","n","t","-","l","e","n","g","t","h">>}
  /\ \A i \in 1..Len(calls) :
       calls[i].for = "fetch" =>
         /\ \A j \in 1..Len(calls[i].headers) :
              \/ OwnHeader(calls[i].headers[j])
              \/ /\ CallerHeader(calls[i].headers[j])
                 /\ toLowerCase(calls[i].headers[j].name) \in {<<"i","f","-","n","o","n","e","-","m","a","t","c","h">>, <<"i","f","-","m","o","d","i","f","i","e","d","-","s","i","n","c","e">>}
         /\ \A k \in 1..Len(OwnHeaders) : \E j \in 1..Len(calls[i].headers) : calls[i].headers[j] = OwnHeaders[k]
\* a success answer of an upstream that also sent set-cookie, to a caller that asked for
\* If-None-Match, User-Agent and Cookie: only If-None-Match went out with the proxy's own
C23_Witness ==
  /\ FetchAnsweredSuccess
  /\ CallerHeader(Header(<<"U","s","e","r","-","A","g","e","n","t">>, <<"c","u","r","l","/","8">>))
  /\ CallerHeader(Header(<<"C","o","o","k","i","e">>, <<"a","=","b">>))
  /\ Len(calls) = 1
  /\ Len(calls[1].headers) = 3
  /\ calls[1].headers[3] = Header(<<"I","f","-","N","o","n","e","-","M","a","t","c","h">>, <<"W","/","0">>)
  /\ HasHeader(response.body.headers, <<"e","t","a","g">>)
  /\ ~HasHeader(response.body.headers, <<"s","e","t","-","c","o","o","k","i","e">>)

(***************************************************************************)
(* The pure functions of api/discover.ts, each applied to one input.       *)
(***************************************************************************)
\* a feed item by the lengths of its texts, 0 for a text that is absent or empty
Item(content, contentEncoded, contentSnippet, summary) ==
  [content |-> content, contentEncoded |-> contentEncoded, contentSnippet |-> contentSnippet, summary |-> summary]
\* (item.content || contentEncoded || '').length
ItemContentLength(item) == IF item.content # 0 THEN item.content ELSE item.contentEncoded
\* (item.contentSnippet || item.summary || '').length
ItemDescriptionLength(item) == IF item.contentSnippet # 0 THEN item.contentSnippet ELSE item.summary
\* contentLength > 500 && contentLength > descriptionLength * 1.5
IsFullContent(contentLength, descriptionLength) == contentLength > 500 /\ 2 * contentLength > 3 * descriptionLength
\* the loop over the sample from its k-th item: fullContentCount and totalContentLength
RECURSIVE FullContentCount(_, _)
FullContentCount(sample, k) ==
  IF k > Len(sample) THEN 0
  ELSE (IF IsFullContent(ItemContentLength(sample[k]), ItemDescriptionLength(sample[k])) THEN 1 ELSE 0)
       + FullContentCount(sample, k + 1)
RECURSIVE TotalContentLength(_, _)
TotalContentLength(sample, k) ==
  IF k > Len(sample) THEN 0 ELSE ItemContentLength(sample[k]) + TotalContentLength(sample, k + 1)
\* Math.round(total / n) of naturals
RoundedMean(total, n) == (2 * total + n) \div (2 * n)
WholeList(items, sampleSize) == items
Sample(items, sampleSize) == SubSeq(items, 1, Min(Len(items), sampleSize))
AnalysisOf(sample) ==
  [has_full_content |-> IF Len(sample) > 0 THEN 5 * FullContentCount(sample, 1) >= 3 * Len(sample) ELSE FALSE,
   average_content_length |-> IF Len(sample) > 0 THEN RoundedMean(TotalContentLength(sample, 1), Len(sample)) ELSE 0,
   sample_size |-> Len(sample)]
analyzeFullContent(items, sampleSize) == AnalysisOf(Sample(items, sampleSize))

\* the handler's classification of body.url.trim(): a username, or the type and the
\* homepage of the normalized url that validateUrl accepted
ClassifyValidated(normalizedUrlString, urlValidation) ==
  IF ~urlValidation.valid THEN [inputType |-> "rejected", input |-> <<>>, homepageUrl |-> <<>>]
  ELSE [inputType |-> detectInputType(urlValidation.url), input |-> <<>>,
        homepageUrl |-> IF detectInputType(urlValidation.url) = "article"
                        THEN extractHomepageUrl(urlValidation.url) ELSE normalizedUrlString]
ClassifyInput(input) ==
  IF isUsernameInput(input) THEN [inputType |-> "username", input |-> WithoutAt(input), homepageUrl |-> <<>>]
  ELSE ClassifyValidated(normalizeUrl(input), validateUrl(normalizeUrl(input)))

MaxItems == 6
ItemKinds ==
  {Item(600, 0, 100, 0), Item(50, 0, 0, 0), Item(0, 600, 0, 400), Item(501, 0, 0, 333), Item(500, 0, 40, 900)}
ItemLists == UNION {[1..n -> ItemKinds] : n \in 0..MaxItems}
PathPrefixes == {<<>>, <<"/","s","i","t","e">>}
PathTails ==
  {<<>>, <<"/">>, <<"/","a","b","o","u","t">>, <<"/","2","0","2","4","/","0","1","/","m","y","-","p","o","s","t">>, <<"/","2","0","2","4","/","m","y","-","p","o","s","t">>, <<"/","1","9","9","9">>, <<"/","2","0","2","4","5","/","x">>, <<"/","p","o","s","t","/","h","e","l","l","o">>,
   <<"/","p","o","s","t","s","/","h","e","l","l","o">>, <<"/","a","r","t","i","c","l","e","/","a">>, <<"/","a","r","t","i","c","l","e","s","/","a">>, <<"/","b","l","o","g","/","h","e","l","l","o">>, <<"/","b","l","o","g","/","a","/","b">>, <<"/","b","l","o","g","/">>, <<"/","b","l","o","g">>,
   <<"/","f","e","e","d">>, <<"/","i","n","d","e","x",".","x","m","l">>, <<"/","p","o","s","t","s","/","f","e","e","d">>, <<"/","2","0","2","4","/","0","1","/","r","s","s",".","x","m","l">>, <<"/","b","l","o","g","/","a","t","o","m",".","x","m","l">>, <<"/","P","O","S","T","S","/","H","e","l","l","o">>,
   <<"/","p","o","s","t","s","c","r","i","p","t","/","x">>, <<"/","a","r","t","i","c","l","e","s","/","2","0","2","4","/","0","5","/","x">>, <<"/","b","l","o","g","/","2","0","2","4","/","x">>}
Paths == {prefix \o tail : prefix \in PathPrefixes, tail \in PathTails}
\* what the caller sends as body.url: user names, urls with and without a scheme, and
\* a host that new URL() rejects
RawInputs ==
  {[kind |-> "username", raw |-> <<"j","d","o","e">>, name |-> <<"j","d","o","e">>, path |-> <<>>],
   [kind |-> "username", raw |-> <<"@","j","d","o","e">>, name |-> <<"j","d","o","e">>, path |-> <<>>],
   [kind |-> "username", raw |-> <<" ","@","j","_","d","-","9"," ">>, name |-> <<"j","_","d","-","9">>, path |-> <<>>],
   [kind |-> "username", raw |-> <<"f","e","e","d">>, name |-> <<"f","e","e","d">>, path |-> <<>>],
   [kind |-> "username", raw |-> <<"2","0","2","4">>, name |-> <<"2","0","2","4">>, path |-> <<>>],
   [kind |-> "invalid", raw |-> <<"e","x","a"," ","m","p","l","e",".","c","o","m","/","f","e","e","d">>, name |-> <<>>, path |-> <<"/","f","e","e","d">>]}
  \cup {[kind |-> "url", raw |-> scheme \o <<"e","x","a","m","p","l","e",".","c","o","m">> \o path, name |-> <<>>, path |-> path] :
          scheme \in {<<>>, <<"h","t","t","p",":","/","/">>}, path \in Paths}
FunctionInputs ==
  {[fn |-> "analyzeFullContent", items |-> items] : items \in ItemLists}
  \cup {[fn |-> "classify", input |-> in] : in \in RawInputs}
  \cup {[fn |-> f, origin |-> <<"h","t","t","p","s",":","/","/","e","x","a","m","p","l","e",".","c","o","m">>, path |-> path] :
          f \in {"detectInputType", "extractHomepageUrl"}, path \in Paths}
Returned(value) == [value |-> value]

InitFunctions ==
  /\ fnInput \in FunctionInputs
  /\ fnResult = NotCalled
  /\ ValidatorIdle
  /\ SanitizerIdle
  /\ HandlersIdle

Analyze ==
  /\ fnInput.fn = "analyzeFullContent" /\ fnResult = NotCalled
  /\ fnResult' = Returned(analyzeFullContent(fnInput.items, 5))
  /\ UNCHANGED <<fnInput, urlVars, htmlVars, handlerVars>>
Classify ==
  /\ fnInput.fn = "classify" /\ fnResult = NotCalled
  /\ fnResult' = Returned(ClassifyInput(trim(fnInput.input.raw)))
  /\ UNCHANGED <<fnInput, urlVars, htmlVars, handlerVars>>
DetectType ==
  /\ fnInput.fn = "detectInputType" /\ fnResult = NotCalled
  /\ fnResult' = Returned(detectInputType(ParseUrl(fnInput.origin \o fnInput.path)))
  /\ UNCHANGED <<fnInput, urlVars, htmlVars, handlerVars>>
ExtractHomepage ==
  /\ fnInput.fn = "extractHomepageUrl" /\ fnResult = NotCalled
  /\ fnResult' = Returned(extractHomepageUrl(ParseUrl(fnInput.origin \o fnInput.path)))
  /\ UNCHANGED <<fnInput, urlVars, htmlVars, handlerVars>>

NextFunctions == Analyze \/ Classify \/ DetectType \/ ExtractHomepage

SpecFunctions == InitFunctions /\ [][NextFunctions]_vars

Analyzed == fnInput.fn = "analyzeFullContent" /\ fnResult # NotCalled
SampleLength == Min(Len(fnInput.items), 5)
\* the items of the sample with content longer than 500 and than 1.5 times the summary
Qualifying ==
  {i \in 1..SampleLength :
     /\ ItemContentLength(fnInput.items[i]) > 500
     /\ 2 * ItemContentLength(fnInput.items[i]) > 3 * ItemDescriptionLength(fnInput.items[i])}
\* C24: analyzeFullContent samples exactly the first min(5, n) items; has_full_content
\* is true iff the sample is not empty and the items with content longer than 500 and
\* longer than 1.5 times the summary are at least 60% of it; sample_size is the sample's
\* length; the empty sample gives false and average 0; four items of content 600 and
\* summary 100 with one of content 50 give true with sample_size 5
C24_FullContentSample ==
  Analyzed =>
    /\ fnResult.value.sample_size = SampleLength
    /\ fnResult.value.has_full_content <=> (SampleLength > 0 /\ 5 * Cardinality(Qualifying) >= 3 * SampleLength)
    /\ fnResult.value = analyzeFullContent(SubSeq(fnInput.items, 1, SampleLength), 5)
    /\ SampleLength = 0 => ~fnResult.value.has_full_content /\ fnResult.value.average_content_length = 0
    /\ fnInput.items = <<Item(600, 0, 100, 0), Item(600, 0, 100, 0), Item(600, 0, 100, 0), Item(600, 0, 100, 0),
                         Item(50, 0, 0, 0)>>
         => fnResult.value = [has_full_content |-> TRUE, average_content_length |-> 490, sample_size |-> 5]
\* six items of which the first five hold exactly three that qualify, the sixth not
\* sampled
C24_Witness ==
  /\ Analyzed
  /\ Len(fnInput.items) = 6
  /\ Cardinality(Qualifying) = 3
  /\ fnInput.items[6] = Item(600, 0, 100, 0)
  /\ fnResult.value.has_full_content
  /\ fnResult.value.sample_size = 5

Classified == fnInput.fn = "classify" /\ fnResult # NotCalled
\* the patterns on the lower-cased path: a feed path, and the article patterns other
\* than /blog/
FeedPattern(path) ==
  \/ \E ext \in {<<".","x","m","l">>, <<".","r","s","s">>, <<".","a","t","o","m">>} : endsWith(path, ext)
  \/ \E part \in {<<"/","f","e","e","d">>, <<"/","r","s","s">>, <<"/","a","t","o","m">>} : includes(path, part)
DatedOrPostPattern(path) ==
  \/ \E i \in 1..Len(path) : YearAt(path, i)
  \/ \E part \in {<<"/","p","o","s","t","/">>, <<"/","p","o","s","t","s","/">>, <<"/","a","r","t","i","c","l","e","/">>, <<"/","a","r","t","i","c","l","e","s","/">>} : includes(path, part)
\* C25: every input gets exactly one class, by precedence: a user name (^@?[A-Za-z0-9_-]+$
\* without a dot) is "username" with the leading @ stripped and no url made of it;
\* otherwise, for a url that validateUrl accepts, a feed path is "feed" even when an
\* article pattern matches too, otherwise a dated or post/article path is "article",
\* otherwise a path without any article pattern is "homepage"; a /blog/ path is "article"
\* or "homepage"
C25_ClassPrecedence ==
  Classified =>
    /\ fnResult.value.inputType \in {"username", "feed", "article", "homepage", "rejected"}
    /\ fnResult.value.inputType = "username" <=> fnInput.input.kind = "username"
    /\ fnInput.input.kind = "username" =>
         /\ fnResult.value.input = fnInput.input.name
         /\ fnResult.value.homepageUrl = <<>>
    /\ fnResult.value.inputType = "rejected" <=> fnInput.input.kind = "invalid"
    /\ fnInput.input.kind = "url" =>
         /\ FeedPattern(toLowerCase(fnInput.input.path)) <=> fnResult.value.inputType = "feed"
         /\ (~FeedPattern(toLowerCase(fnInput.input.path)) /\ DatedOrPostPattern(toLowerCase(fnInput.input.path)))
              => fnResult.value.inputType = "article"
         /\ (/\ ~FeedPattern(toLowerCase(fnInput.input.path))
             /\ ~DatedOrPostPattern(toLowerCase(fnInput.input.path))
             /\ ~includes(toLowerCase(fnInput.input.path), <<"/","b","l","o","g","/">>))
              => fnResult.value.inputType = "homepage"
\* a dated path that ends in .xml is a feed, not an article
C25_Witness ==
  /\ Classified
  /\ fnInput.input.raw = <<"e","x","a","m","p","l","e",".","c","o","m","/","2","0","2","4","/","0","1","/","r","s","s",".","x","m","l">>
  /\ DatedOrPostPattern(fnInput.input.path)
  /\ fnResult.value.inputType = "feed"

Detected == fnInput.fn = "detectInputType" /\ fnResult # NotCalled
\* /blog/ followed by at least one further segment
BlogWithSegment(path) ==
  \E i \in 1..Len(path) : MatchAt(path, <<"/","b","l","o","g","/">>, i) /\ i + 6 <= Len(path) /\ path[i + 6] # "/"
\* C26: a url whose path matches no feed pattern is "article" when the path holds a
\* /YYYY/ segment, /post/, /posts/, /article/, /articles/, or /blog/ followed by at
\* least one further segment, the form /blog/<slug> included
C26_ArticlePatterns ==
  (/\ Detected
   /\ ~FeedPattern(toLowerCase(fnInput.path))
   /\ DatedOrPostPattern(toLowerCase(fnInput.path)) \/ BlogWithSegment(toLowerCase(fnInput.path)))
    => fnResult.value = "article"

Extracted == fnInput.fn = "extractHomepageUrl" /\ fnResult # NotCalled
\* the length of the prefix before the first of the five patterns that matches, -1
\* when none does
ArticlePrefix(path) ==
  FirstPattern(<<LazyPrefix(path, YearMonthAt), LazyPrefix(path, YearAt), LazyPrefix(path, PostsAt),
                 LazyPrefix(path, ArticlesAt), LazyPrefix(path, BlogSlugAt)>>)
\* C27: extractHomepageUrl answers the origin followed by the path prefix before the
\* first of its five patterns that matches, and the bare origin, without a trailing
\* slash, when that prefix is empty or no pattern matches
C27_HomepagePrefix ==
  Extracted =>
    fnResult.value = IF ArticlePrefix(fnInput.path) <= 0 THEN fnInput.origin
                     ELSE fnInput.origin \o SubSeq(fnInput.path, 1, ArticlePrefix(fnInput.path))

Probing == pc \in {"probe", "batch"}
\* the probes of the current batch that have not settled
InFlight == {k \in 1..Len(probing.results) : probing.results[k] = Pending}
\* the place in COMMON_FEED_PATHS of the path a probe call asks for, 0 for any other url
PathIndex(url) ==
  IF \E j \in 1..Len(COMMON_FEED_PATHS) : url = probing.origin \o COMMON_FEED_PATHS[j]
  THEN CHOOSE j \in 1..Len(COMMON_FEED_PATHS) : url = probing.origin \o COMMON_FEED_PATHS[j]
  ELSE 0
\* C28: during probeFeedPaths at most 3 probes are in flight; while a probe of a batch has
\* not settled no path of a later batch has been requested, and between two batches
\* nothing is in flight; the paths are requested in the order of COMMON_FEED_PATHS,
\* none of an earlier batch left out
C28_BatchedProbes ==
  Probing =>
    /\ Cardinality(InFlight) <= 3
    /\ pc = "probe" => InFlight = {} /\ \A j \in 1..Len(COMMON_FEED_PATHS) : ProbeRequested(j) <=> j <= probing.i
    /\ pc = "batch" =>
         \A j \in 1..Len(COMMON_FEED_PATHS) : ProbeRequested(j) <=> j <= probing.i + 3
    /\ \A a \in 1..Len(CallsFor("probe")) :
         /\ PathIndex(CallsFor("probe")[a].url) >= 1
         /\ \A b \in 1..(a - 1) : PathIndex(CallsFor("probe")[b].url) < PathIndex(CallsFor("probe")[a].url)
\* the second batch with one of its three probes settled: six paths requested, two in flight
C28_Witness ==
  /\ pc = "batch"
  /\ probing.i = 3
  /\ Cardinality(InFlight) = 2
  /\ Len(CallsFor("probe")) = 6
  /\ ~ProbeRequested(7)

\* /discover answered success for an input that is not a user name
DiscoverSucceeded ==
  /\ pc = "done" /\ request.endpoint = "discover"
  /\ response.status = 200 /\ response.body.success
  /\ "feeds" \in DOMAIN response.body
\* C29: in every success response of /discover to an input that is not a user name,
\* recommended_feed is null iff feeds is empty and is otherwise the url of the first
\* feed; metadata, content_analysis and recent_posts are all null or all not null, and
\* not null only when feeds is not empty; on the homepage/article path the message is
\* present iff feeds is empty
C29_SuccessShape ==
  DiscoverSucceeded =>
    /\ response.body.recommended_feed = Null <=> response.body.feeds = <<>>
    /\ response.body.feeds # <<>> => response.body.recommended_feed = response.body.feeds[1].url
    /\ response.body.metadata = NullObject <=> response.body.content_analysis = NullObject
    /\ response.body.metadata = NullObject <=> response.body.recent_posts = NullPosts
    /\ response.body.metadata # NullObject => response.body.feeds # <<>>
    /\ response.body.input_type \in {"homepage", "article"} =>
         (response.body.message # Null <=> response.body.feeds = <<>>)
\* an article whose homepage declares two feeds, the first of which parsed
C29_Witness ==
  /\ DiscoverSucceeded
  /\ response.body.input_type = "article"
  /\ Len(response.body.feeds) = 2
  /\ response.body.recommended_feed = response.body.feeds[1].url
  /\ response.body.metadata # NullObject
  /\ response.body.recent_posts # NullPosts
  /\ response.body.message = Null

=============================================================================
